---- MODULE Spec2Model ----
(***************************************************************************)
(* State-machine model of the HUNTX aggregator: the proxy-URI              *)
(* canonicaliser and the npvt handler (formats/npvt.py), the state         *)
(* repository (state/repo.py), the ingest, transform, build and publish    *)
(* pipelines and the orchestrator run (core/orchestrator.py).              *)
(*                                                                         *)
(* The module holds several specifications over one set of variables.      *)
(* Each specification drives one group of variables and leaves the other   *)
(* groups at their idle value.                                             *)
(***************************************************************************)
EXTENDS Integers, Sequences, FiniteSets, TLC

VARIABLES
    \* ---- canonicaliser / npvt handler (SpecUri) ----
    txt,        \* input text handed to NpvtHandler.parse
    upc,        \* position in the parse -> build -> parse pipeline
    recs,       \* records returned by the first parse
    bin,        \* records handed to build
    built,      \* lines of the artifact returned by build
    recs2,      \* records returned by parsing the artifact
    s1,         \* strip_proxy_remark of each input line
    s2,         \* strip_proxy_remark applied to s1
    \* ---- persistent state: SQLite tables and the raw store ----
    seen_files,     \* rows of table seen_files, in insertion order
    source_state,   \* table source_state: source_id -> state or NoState
    blobs,          \* hashes of the files present in the raw store
    \* ---- ingestion workers (SpecIngest) ----
    wk,             \* per worker: position, source, buffer and counters
    dbWriter,       \* worker whose open transaction holds the write lock
    ingestRuns,     \* ingestion runs started so far
    \* ---- publication (SpecPublish) ----
    published_artifacts,    \* rows of table published_artifacts, in insertion order
    clock,          \* wall clock in whole seconds (CURRENT_TIMESTAMP)
    uploads,        \* files the destinations received, oldest first
    lastPublish,    \* what the last PublishPipeline.run read and attempted
    pubRuns,        \* PublishPipeline.run calls so far
    \* ---- records, build query and pruning (SpecStore) ----
    records,        \* rows of table records, in insertion order
    lastQuery,      \* arguments and rows of the last get_records_for_build
    lastPrune,      \* raw store before and after the last prune_processed
    storeOps,       \* ingestion, transform and prune calls so far
    \* ---- Orchestrator.run (SpecRun) ----
    rpc,            \* phase the run is in
    runNo,          \* runs completed so far
    feeds,          \* per source: the items its connector yields in every run
    source_queue,   \* sources not yet ingested in this run
    all_build_results,  \* build results of this run, in build order
    toPublish,      \* build results whose publish task has not run yet
    artifact_files, \* files under dist/internal: (route, format, hash)
    output_files,   \* files under dist/output: name and bytes
    archive,        \* files of the archive: name, timestamp and bytes
    outputs,        \* route files under outputs/: name and bytes
    outputs_dev,    \* outputs_dev/: the manifest and the time in the headers
    afterRun1,      \* persistent state at the end of the first run
    lastBuild,      \* what the last BuildPipeline.run read and found on disk
    \* ---- files written by atomic_write (SpecAtomic) ----
    dirFinal,       \* inode that the final path names, or NoInode
    dirTmp,         \* inode that the temporary sibling names, or NoInode
    inodes,         \* content of every inode created so far
    wr,             \* per writer: position, open file, offset, data, outcome
    lastRead,       \* what the last reader of the final path saw
    overlap,        \* two writers of the path were in atomic_write at once
    crashed,        \* a writer crashed
    pathKind,       \* the final path: a blob of the raw store or an output file
    \* ---- how the TransformPipeline was constructed (SpecTransform) ----
    registry,       \* formats that have a handler in the registry
    raises,         \* files whose handler.parse raises
    \* ---- ingestion outcome of a run (SpecFault) ----
    results,        \* results["ok"] and results["err"] of the run
    failing,        \* sources whose connector raises
    \* ---- publish tasks of the routes of one run (SpecRoutes) ----
    routes,         \* config.routes: name, destinations and artifact of each
    futures,        \* per route: its publish task in the shared pool
    attempts,       \* uploads attempted so far: (route index, chat_id)
    \* ---- instances of the run command (SpecCli) ----
    inst,           \* per process: entry point, position, config, exit code
    lockHolder,     \* process that holds the lock on huntx.lock
    \* ---- locals of Orchestrator.run ----
    seen_file_cutoff_id,    \* max(seen_files.id) read when the run started
    \* ---- calls of the StateRepo while the database may fail (SpecRepo) ----
    call,           \* the last call: operation, whether the database failed, outcome
    handled,        \* per seen_files id: process_pending calls that handled the file
    \* ---- phase 1 of Orchestrator.run: the ingestion pool (SpecPool) ----
    sources,        \* config.sources, in order
    max_workers,    \* Orchestrator.max_workers
    timeout,        \* the timeout of the run, or NoTimeout
    elapsed,        \* time.time() - start_time, in seconds
    opc,            \* position of Orchestrator.run in phase 1
    joined,         \* worker threads the join loop has passed
    queue,          \* the shared source_queue
    pw,             \* per worker thread: position, source, channel id, result
    seen_channels,  \* Orchestrator._seen_channels
    src_log,        \* per source: what the workers did with it
    \* ---- phases 2 to 4 of Orchestrator.run (SpecPhases) ----
    orch,           \* next route, publish tasks, failed routes, exports, cleanups
    \* ---- the export of a run (SpecExport) ----
    xp,             \* configured routes, exports so far, outputs/ before the last one
    \* ---- outputs_dev/ across runs (SpecDev) ----
    dv,             \* record lines, _manifest.json, proxies.txt, time and number of runs
    \* ---- one call of BuildPipeline.run (SpecText) ----
    bt,             \* the records of the route, the raw store, the build results
    \* ---- how the ingestion runs ended (SpecRaise) ----
    ended,          \* how the last run of IngestionPipeline.run that ended did end
    \* ---- one telegram_user source over its runs (SpecOffset) ----
    cx              \* the channel, the connector, the buffer of the run, rows and offset

uriVars == <<txt, upc, recs, bin, built, recs2, s1, s2>>

dbVars == <<seen_files, source_state, blobs>>

ingestVars == <<wk, dbWriter, ingestRuns>>

pubVars == <<published_artifacts, clock, uploads, lastPublish, pubRuns>>

storeVars == <<records, lastQuery, lastPrune, storeOps>>

runVars == <<rpc, runNo, feeds, source_queue, all_build_results, toPublish,
             artifact_files, output_files, archive, outputs, outputs_dev, afterRun1,
             lastBuild>>

atomVars == <<dirFinal, dirTmp, inodes, wr, lastRead, overlap, crashed, pathKind>>

\* the variables of the specifications that follow SpecRun
transVars == <<registry, raises>>

faultVars == <<results, failing>>

routeVars == <<routes, futures, attempts>>

cliVars == <<inst, lockHolder>>

cutVars == <<seen_file_cutoff_id>>

\* the variables of the specifications that follow SpecCli
repoVars == <<call, handled>>

poolVars == <<sources, max_workers, timeout, elapsed, opc, joined, queue, pw, seen_channels,
              src_log>>

phaseVars == <<orch>>

\* the variables of the specifications that follow SpecPhases
lastVars == <<xp, dv, bt, ended, cx>>

moreVars == <<cutVars, repoVars, poolVars, phaseVars, lastVars>>

\* what Orchestrator.run leaves alone of them
nonCutVars == <<repoVars, poolVars, phaseVars, lastVars>>

nonRepoVars == <<uriVars, ingestVars, runVars, atomVars, transVars, faultVars, routeVars,
                 cliVars, cutVars, poolVars, phaseVars, lastVars>>

\* SpecPool counts in results and leaves the rest alone
nonPoolVars == <<uriVars, dbVars, ingestVars, pubVars, storeVars, runVars, atomVars,
                 transVars, failing, routeVars, cliVars, cutVars, repoVars, phaseVars,
                 lastVars>>

\* SpecPhases uses max_workers, timeout, elapsed and opc of the pool
nonPhaseVars == <<uriVars, dbVars, ingestVars, pubVars, storeVars, runVars, atomVars,
                  transVars, faultVars, routeVars, cliVars, cutVars, repoVars,
                  sources, joined, queue, pw, seen_channels, src_log, lastVars>>

laterVars == <<atomVars, transVars, faultVars, routeVars, cliVars, moreVars>>

vars == <<uriVars, dbVars, ingestVars, pubVars, storeVars, runVars, laterVars>>

\* what each specification leaves alone
nonUriVars == <<dbVars, ingestVars, pubVars, storeVars, runVars, laterVars>>

nonIngestVars == <<uriVars, pubVars, storeVars, runVars, laterVars>>

nonPubVars == <<uriVars, dbVars, ingestVars, storeVars, runVars, laterVars>>

nonStoreVars == <<uriVars, ingestVars, pubVars, runVars, laterVars>>

nonAtomVars == <<uriVars, dbVars, ingestVars, pubVars, storeVars, runVars, transVars,
                 faultVars, routeVars, cliVars, moreVars>>

nonRouteVars == <<uriVars, dbVars, ingestVars, storeVars, runVars, atomVars, transVars,
                  faultVars, cliVars, moreVars>>

nonCliVars == <<uriVars, dbVars, ingestVars, pubVars, storeVars, runVars, atomVars,
                transVars, faultVars, routeVars, moreVars>>

\* ------------------------------------------------------------------
\* Bounds
\* ------------------------------------------------------------------
MaxLines == 2       \* lines of an input text
MaxIngestRuns == 2  \* ingestion runs started in one behaviour
MaxFeed == 3        \* items a connector yields in one run
MaxPublishRuns == 3 \* PublishPipeline.run calls in one behaviour
MaxClock == 1       \* seconds that pass in one behaviour
MaxStoreOps == 4    \* ingestion, transform and prune calls in one behaviour

\* ------------------------------------------------------------------
\* Generic helpers
\* ------------------------------------------------------------------
SetMax(S) == CHOOSE x \in S : \A y \in S : y <= x

SeqsUpTo(S, n) == UNION {[1..k -> S] : k \in 0..n}

RECURSIVE SeqOfSet(_)
SeqOfSet(S) ==
    IF S = {} THEN <<>>
    ELSE LET x == CHOOSE y \in S : TRUE IN <<x>> \o SeqOfSet(S \ {x})

Range(s) == {s[i] : i \in 1..Len(s)}

\* ------------------------------------------------------------------
\* Persistent state: tables seen_files and source_state, the raw store
\* ------------------------------------------------------------------
\* error_msg NULL of a seen_files row
NoMsg == "<null>"

Sources == {"s1", "s2"}
ExternalIds == {"m1", "m2"}
Datas == {"d1", "d2"}

\* d3 is the text d1 with another remark after the '#' of its URI
FileDatas == Datas \cup {"d3"}
Workers == {"w1", "w2"}

\* what a connector yields: the message id and the file bytes; m2 is seen
\* with the bytes of m1 and with bytes of its own
Items ==
    {it \in [external_id : ExternalIds, data : Datas] : it.external_id = "m1" => it.data = "d1"}

Committed == "committed"    \* a row of a committed transaction
NoWorker == "none"
NoState == [present |-> FALSE, total_files |-> 0, files_ingested |-> 0, skipped_files |-> 0]

sha256(data) == "sha256(" \o data \o ")"

\* seen_files.id is INTEGER PRIMARY KEY AUTOINCREMENT and no row is deleted
NewRowId(sf) == IF sf = <<>> THEN 1 ELSE SetMax({sf[i].id : i \in 1..Len(sf)}) + 1

\* a plain INSERT into a table without the UNIQUE(source_id, external_id) key
InsertPlain(sf, row) == Append(sf, [row EXCEPT !.id = NewRowId(sf)])

\* INSERT OR IGNORE INTO seen_files: a row whose (source_id, external_id)
\* is already in the table is dropped
InsertOrIgnore(sf, row) ==
    IF \E i \in 1..Len(sf) : /\ sf[i].source_id = row.source_id
                             /\ sf[i].external_id = row.external_id
    THEN sf
    ELSE Append(sf, [row EXCEPT !.id = NewRowId(sf)])

\* record_files_batch: INSERT OR IGNORE of every row, in order
RECURSIVE record_files_batch(_, _)
record_files_batch(sf, rows) ==
    IF rows = <<>> THEN sf
    ELSE record_files_batch(InsertOrIgnore(sf, Head(rows)), Tail(rows))

\* rows a connection can read: the committed ones and its own
VisibleTo(w, row) == row.tx \in {Committed, w}

\* get_seen_files_batch: the ids of the batch that are already recorded
get_seen_files_batch(sf, w, source_id, ids) ==
    {sf[i].external_id : i \in {k \in 1..Len(sf) : /\ sf[k].source_id = source_id
                                                    /\ sf[k].external_id \in ids
                                                    /\ VisibleTo(w, sf[k])}}

\* RawStore.save: the blob is written under its hash unless it exists
save(bl, data) == bl \cup {sha256(data)}

\* IngestionPipeline._process_batch over the worker's connection
_process_batch(sf, bl, w, source_id, buffer) ==
    LET external_ids == {buffer[i].external_id : i \in 1..Len(buffer)}
        seen_ids == get_seen_files_batch(sf, w, source_id, external_ids)
        fresh == SelectSeq(buffer, LAMBDA item : item.external_id \notin seen_ids)
        records_to_insert ==
            [i \in 1..Len(fresh) |->
                [id |-> 0, source_id |-> source_id, external_id |-> fresh[i].external_id,
                 raw_hash |-> sha256(fresh[i].data), status |-> "pending",
                 error_msg |-> NoMsg, tx |-> w]]
    IN [seen_files |-> IF records_to_insert = <<>> THEN sf
                       ELSE record_files_batch(sf, records_to_insert),
        blobs |-> bl \cup {sha256(fresh[i].data) : i \in 1..Len(fresh)},
        new_items_count |-> Len(fresh),
        skipped_count |-> Len(buffer) - Len(fresh),
        wrote |-> records_to_insert # <<>>]

\* conn.commit(): the rows of the connection become visible to all
CommitRows(sf, w) ==
    [i \in 1..Len(sf) |-> IF sf[i].tx = w THEN [sf[i] EXCEPT !.tx = Committed] ELSE sf[i]]

\* update_source_state with the statistics block of the run
WithStats(ss, src, count, skipped_count) ==
    [ss EXCEPT ![src] = [present |-> TRUE,
                         total_files |-> ss[src].total_files + count,
                         files_ingested |-> count,
                         skipped_files |-> skipped_count]]

DbEmpty ==
    /\ seen_files = <<>>
    /\ source_state = [s \in Sources |-> NoState]
    /\ blobs = {}

IdleWorker == [pc |-> "idle", source_id |-> "", buffer |-> <<>>, yielded |-> 0,
               count |-> 0, skipped_count |-> 0]

IngestIdle ==
    /\ wk = [w \in Workers |-> IdleWorker]
    /\ dbWriter = NoWorker
    /\ ingestRuns = 0

\* ------------------------------------------------------------------
\* Persistent state: table published_artifacts
\* ------------------------------------------------------------------
NoHash == "<none>"

NoPublish == [ran |-> FALSE, unique_id |-> "", new_hash |-> NoHash, last_hash |-> NoHash,
              attempted |-> {}, sent |-> {}, uploadsBefore |-> 0, rowsBefore |-> 0]

PublishIdle ==
    /\ published_artifacts = <<>>
    /\ clock = 0
    /\ uploads = <<>>
    /\ lastPublish = NoPublish
    /\ pubRuns = 0

\* ------------------------------------------------------------------
\* Persistent state: table records
\* ------------------------------------------------------------------
NoMin == -1     \* min_seen_file_id = None

NoQuery == [ran |-> FALSE, record_types |-> {}, allowed_source_ids |-> {},
            min_seen_file_id |-> NoMin, rows |-> <<>>]

NoPrune == [ran |-> FALSE, before |-> {}, after |-> {}]

StoreIdle ==
    /\ records = <<>>
    /\ lastQuery = NoQuery
    /\ lastPrune = NoPrune
    /\ storeOps = 0

\* ------------------------------------------------------------------
\* Files written by a run: artifacts, outputs/ and outputs_dev/
\* ------------------------------------------------------------------
NoTime == -1

NoSnapshot == [taken |-> FALSE]

NoBuild == [ran |-> FALSE]

NoDevOutputs == [manifest |-> {}, generated |-> NoTime]

RunIdle ==
    /\ rpc = "idle"
    /\ runNo = 0
    /\ feeds = [s \in Sources |-> <<>>]
    /\ source_queue = {}
    /\ all_build_results = <<>>
    /\ toPublish = {}
    /\ artifact_files = {}
    /\ output_files = {}
    /\ archive = {}
    /\ outputs = {}
    /\ outputs_dev = NoDevOutputs
    /\ afterRun1 = NoSnapshot
    /\ lastBuild = NoBuild

\* ------------------------------------------------------------------
\* A file written by atomic_write: a directory with two names, the final
\* path and its sibling <name>.tmp, and the inodes they name
\* ------------------------------------------------------------------
NoInode == 0

NotRead == <<<<"not read", 0>>>>

NoFile == <<<<"no file", 0>>>>

IdleWriter == [pc |-> "idle", fd |-> NoInode, off |-> 0, data |-> "", result |-> "none",
               n |-> 0]

AtomIdle ==
    /\ dirFinal = NoInode
    /\ dirTmp = NoInode
    /\ inodes = <<>>
    /\ wr = [w \in Workers |-> IdleWriter]
    /\ lastRead = NotRead
    /\ overlap = FALSE
    /\ crashed = FALSE
    /\ pathKind = "raw"

\* register_all_formats: the formats that have a handler in the registry
\* of the orchestrator
RegisteredFormats ==
    {"conf_lines", "npvt", "npvtsub", "ovpn", "npv4", "ehi", "hc", "hat", "sip", "nm",
     "dark", "opaque_bundle"}

\* the pipeline of the orchestrator: every format registered, no parse raises
TransIdle ==
    /\ registry = RegisteredFormats
    /\ raises = {}

\* results = {"ok": 0, "err": 0}, and connectors that do not raise
NoResults == [ok |-> 0, err |-> 0]

FaultIdle ==
    /\ results = NoResults
    /\ failing = {}

\* no route configured, no task submitted
RouteIdle ==
    /\ routes = <<>>
    /\ futures = <<>>
    /\ attempts = <<>>

\* the processes that may run the command at one time
Instances == {"p1", "p2"}

NoExit == -1

IdleInstance ==
    [pc |-> "idle", entry |-> "", config |-> "", exit_code |-> NoExit,
     found_locked |-> FALSE, ran |-> FALSE, completed |-> FALSE]

NoInstance == "none"

CliIdle ==
    /\ inst = [p \in Instances |-> IdleInstance]
    /\ lockHolder = NoInstance

\* no run has read the cutoff yet
CutIdle == seen_file_cutoff_id = 0

\* the ids seen_files can hold: one per (source_id, external_id)
FileIds == 1..Cardinality(Sources \X ExternalIds)

NoCall == [op |-> "", failed |-> FALSE, outcome |-> "", value |-> ""]

RepoIdle ==
    /\ call = NoCall
    /\ handled = [id \in FileIds |-> 0]

NoTimeout == -1     \* timeout = None

\* the sources a configuration may name
SourceIds == {"u1", "u2", "b1", "x1"}

NoSource == "none"
NoChannel == "none"     \* resolve_channel_id() returned None, or was not called

IdlePoolWorker == [pc |-> "unstarted", src |-> NoSource, channel_id |-> NoChannel,
                   items |-> 0, success |-> FALSE]

NoLog == [taken |-> 0, ingested |-> 0, resolved |-> NoChannel,
          constructed |-> FALSE, cleaned |-> FALSE, counted |-> ""]

PoolIdle ==
    /\ sources = <<>>
    /\ max_workers = 0
    /\ timeout = NoTimeout
    /\ elapsed = 0
    /\ opc = "idle"
    /\ joined = 0
    /\ queue = <<>>
    /\ pw = <<>>
    /\ seen_channels = {}
    /\ src_log = [s \in SourceIds |-> NoLog]

MaxPhaseRoutes == 2     \* routes of the configuration

NoTask == "none"

NoRun == [route |-> 0, tasks |-> [i \in 1..MaxPhaseRoutes |-> NoTask], failed_routes |-> {},
          wait_until |-> 0, phase3_ended |-> FALSE, exports |-> 0, cleanups |-> 0,
          interrupted |-> {}]

PhaseIdle == orch = NoRun

NoExport == [routes |-> {}, exports |-> 0, before |-> {}]

ExportIdle == xp = NoExport

NoDev == [lines |-> {}, manifest |-> {}, before |-> {}, proxies |-> <<>>, now |-> 0, runs |-> 0]

DevIdle == dv = NoDev

NoText == [rows |-> <<>>, blobs |-> {}, results |-> <<>>, ran |-> FALSE]

TextIdle == bt = NoText

NoEnd == "none"

RaiseIdle == ended = NoEnd

NoScan == [pc |-> "idle", kinds |-> <<>>, deadline |-> FALSE, pass |-> 0, next |-> 0,
              last_id |-> 0, offset |-> 0, batch |-> <<>>, out |-> <<>>, buffer |-> <<>>,
              rows |-> {}, persisted |-> 0, runs |-> 0, how |-> "none"]

OffsetIdle == cx = NoScan

LastIdle == ExportIdle /\ DevIdle /\ TextIdle /\ RaiseIdle /\ OffsetIdle

MoreIdle == CutIdle /\ RepoIdle /\ PoolIdle /\ PhaseIdle /\ LastIdle

LaterIdle == AtomIdle /\ TransIdle /\ FaultIdle /\ RouteIdle /\ CliIdle /\ MoreIdle

\* ------------------------------------------------------------------
\* Proxy URIs as text
\*
\* A URI is the text  <scheme>:// <blob> <rest>  where
\*   scheme : the lower-case scheme name, "" for a line without "://"
\*   blob   : the base64 text of a JSON document, or NoBlob
\*   rest   : the characters that follow; "#" is the fragment separator
\*            (not a base64 character), every other token is a run of
\*            base64-alphabet characters
\* Two URIs are the same text iff the three fields are equal.
\* ------------------------------------------------------------------
_PROXY_SCHEMES ==
    {"vmess", "vless", "trojan", "ss", "ssr", "hysteria2", "hy2", "hysteria",
     "tuic", "wireguard", "wg", "socks", "socks5", "socks4", "anytls",
     "juicity", "warp", "dns", "dnstt"}

NoPs == "<absent>"

NoBlob == [kind |-> "none", add |-> "", ps |-> NoPs, order |-> "sorted",
           spaced |-> FALSE, pad |-> TRUE]

\* Length of the JSON text of a blob.  Objects have the keys "add", "v"
\* (value "2") and optionally "ps"; the array is the text [1].
JsonLen(b) ==
    IF b.kind = "arr" THEN 3
    ELSE LET nkeys == IF b.ps = NoPs THEN 2 ELSE 3
             body  == (8 + Len(b.add)) + 7
                      + (IF b.ps = NoPs THEN 0 ELSE 7 + Len(b.ps))
         IN 2 + body + (nkeys - 1)
            + (IF b.spaced THEN nkeys + (nkeys - 1) ELSE 0)

\* Number of base64 data characters of the blob, modulo 4.
QuadPos(b) ==
    CASE JsonLen(b) % 3 = 0 -> 0
      [] JsonLen(b) % 3 = 1 -> 2
      [] OTHER -> 3

NoUri == [scheme |-> "", blob |-> NoBlob, rest |-> <<>>]

Uri(sch, b, r) == [scheme |-> sch, blob |-> b, rest |-> r]

HasScheme(u) == u.scheme # ""

\* Number of characters before the rest (only 0 / positive matters).
PrefixLen(u) == (IF HasScheme(u) THEN 1 ELSE 0) + (IF u.blob.kind = "none" THEN 0 ELSE 1)

\* Length in characters of the text after "scheme://", modulo 4.
PayloadLenMod4(u) ==
    LET blobLen == IF u.blob.kind = "none" THEN 0
                   ELSE QuadPos(u.blob)
                        + (IF u.blob.pad THEN (4 - QuadPos(u.blob)) % 4 ELSE 0)
        RECURSIVE RestLen(_)
        RestLen(r) == IF r = <<>> THEN 0 ELSE Len(Head(r)) + RestLen(Tail(r))
    IN (blobLen + RestLen(u.rest)) % 4

DecodeFail == [kind |-> "fail", add |-> "", ps |-> NoPs, order |-> "sorted"]

\* _b64_decode_safe followed by json.loads: the decoded JSON document, or
\* DecodeFail when base64.b64decode or json.loads raises.
\* The decoder drops "#", stops at a completed "=" padding, and raises
\* when the data characters do not end on a quad.
_b64_decode_safe(u) ==
    LET b == u.blob
        q == QuadPos(b)
        doc == [kind |-> b.kind, add |-> b.add, ps |-> b.ps, order |-> b.order]
        dataInRest == \E i \in 1..Len(u.rest) : u.rest[i] # "#"
        appended == (4 - PayloadLenMod4(u)) % 4
    IN IF b.kind = "none" THEN DecodeFail
       ELSE IF q # 0 /\ b.pad THEN doc
       ELSE IF dataInRest THEN DecodeFail
       ELSE IF q = 0 THEN doc
       ELSE IF q + appended >= 4 THEN doc
       ELSE DecodeFail

\* uri.rfind("#") followed by uri[:idx] when idx > 0.
StripFragment(u) ==
    LET I == {i \in 1..Len(u.rest) : u.rest[i] = "#"}
    IN IF I = {} THEN u
       ELSE LET i == SetMax(I)
            IN IF PrefixLen(u) + (i - 1) > 0
               THEN [u EXCEPT !.rest = SubSeq(u.rest, 1, i - 1)]
               ELSE u

strip_proxy_remark(u) ==
    LET d == _b64_decode_safe(u)
    IN IF u.scheme = "vmess" /\ d.kind = "obj"
       THEN Uri("vmess",
                [kind |-> "obj", add |-> d.add, ps |-> NoPs, order |-> "sorted",
                 spaced |-> FALSE, pad |-> TRUE],
                <<>>)
       ELSE StripFragment(u)

SchemeOf(u) == IF HasScheme(u) THEN u.scheme ELSE "proxy"

Tag(u, n) == SchemeOf(u) \o "-" \o ToString(n)

\* add_clean_remark numbering from 0: the tag is built before the increment.
add_clean_remark_zero_based(u, n) ==
    LET d == _b64_decode_safe(u)
    IN IF u.scheme = "vmess"
       THEN IF d.kind = "obj"
            THEN Uri("vmess",
                     [kind |-> "obj", add |-> d.add, ps |-> Tag(u, n - 1),
                      order |-> IF d.ps = NoPs THEN "pslast" ELSE d.order,
                      spaced |-> FALSE, pad |-> TRUE],
                     <<>>)
            ELSE u
       ELSE LET base == StripFragment(u)
            IN [base EXCEPT !.rest = base.rest \o <<"#", Tag(u, n - 1)>>]

\* add_clean_remark(uri, counter) with counter[scheme] already incremented to n.
add_clean_remark(u, n) ==
    LET d == _b64_decode_safe(u)
    IN IF u.scheme = "vmess"
       THEN IF d.kind = "obj"
            THEN Uri("vmess",
                     [kind |-> "obj", add |-> d.add, ps |-> Tag(u, n),
                      order |-> IF d.ps = NoPs THEN "pslast" ELSE d.order,
                      spaced |-> FALSE, pad |-> TRUE],
                     <<>>)
            ELSE u
       ELSE LET base == StripFragment(u)
            IN [base EXCEPT !.rest = base.rest \o <<"#", Tag(u, n)>>]

hash_string(u) == <<"sha256", u>>

_is_proxy_line(line) == line.prose = FALSE /\ line.uri.scheme \in _PROXY_SCHEMES

\* _PROXY_URI_RE.findall: the URIs of a line (a line holds at most one).
_extract_proxy_uris(line) ==
    IF line.uri.scheme \in _PROXY_SCHEMES THEN <<line.uri>> ELSE <<>>

\* normalize_text(line) is empty.
IsBlank(line) == line.prose = FALSE /\ line.uri = NoUri

Rec(u) == [unique_hash |-> hash_string(u), line |-> u]

\* NpvtHandler.parse.  A base64-wrapped text is decoded first when the
\* decoded text holds a proxy scheme; otherwise it stays one line of
\* base64 characters, which holds no URI.
RECURSIVE ParseLines(_, _)
ParseLines(lines, acc) ==
    IF lines = <<>> THEN acc
    ELSE LET line == Head(lines)
             cand == IF IsBlank(line) THEN <<>>
                     ELSE IF _is_proxy_line(line) THEN <<line.uri>>
                     ELSE _extract_proxy_uris(line)
             stripped == IF cand = <<>> THEN NoUri ELSE strip_proxy_remark(cand[1])
             seen == {acc[i].unique_hash : i \in 1..Len(acc)}
         IN IF cand = <<>> \/ hash_string(stripped) \in seen
            THEN ParseLines(Tail(lines), acc)
            ELSE ParseLines(Tail(lines), Append(acc, Rec(stripped)))

parse(t) ==
    IF t.b64 /\ ~(\E i \in 1..Len(t.lines) : t.lines[i].uri.scheme \in _PROXY_SCHEMES)
    THEN <<>>
    ELSE ParseLines(t.lines, <<>>)

\* NpvtHandler.build: the emitted lines, the canonical forms seen and the
\* remark counter after the records rs.
RECURSIVE BuildLoop(_, _)
BuildLoop(rs, st) ==
    IF rs = <<>> THEN st
    ELSE LET line == Head(rs).line
             stripped == strip_proxy_remark(line)
             sch == SchemeOf(stripped)
             n == (IF sch \in DOMAIN st.counter THEN st.counter[sch] ELSE 0) + 1
         IN IF line = NoUri \/ stripped \in st.seen
            THEN BuildLoop(Tail(rs), st)
            ELSE BuildLoop(Tail(rs),
                   [lines |-> Append(st.lines, add_clean_remark(stripped, n)),
                    canon |-> Append(st.canon, stripped),
                    seen |-> st.seen \cup {stripped},
                    counter |-> [s \in DOMAIN st.counter \cup {sch} |->
                                    IF s = sch THEN n ELSE st.counter[s]]])

BuildState(rs) ==
    BuildLoop(rs, [lines |-> <<>>, canon |-> <<>>, seen |-> {}, counter |-> <<>>])

build(rs) == BuildState(rs).lines

\* The artifact text read back as parse input.
AsText(lines) == [b64 |-> FALSE,
                  lines |-> [i \in 1..Len(lines) |-> [prose |-> FALSE, uri |-> lines[i]]]]

\* ------------------------------------------------------------------
\* Input universe of SpecUri
\* ------------------------------------------------------------------
\* Tails of the vless URIs: "a" is a run of ordinary characters, "#" the
\* fragment separator.
VlessTails ==
    {<<>>, <<"a">>, <<"a", "#">>, <<"a", "#", "a">>, <<"#", "a">>, <<"#", "#">>,
     <<"a", "#", "a", "#", "a">>}

Blobs ==
    {[kind |-> "obj", add |-> "h1", ps |-> p, order |-> o, spaced |-> sp, pad |-> pd] :
        p \in {NoPs, "x"}, o \in {"sorted", "psfirst"}, sp \in BOOLEAN, pd \in BOOLEAN}
    \cup {[kind |-> "arr", add |-> "", ps |-> NoPs, order |-> "sorted",
           spaced |-> FALSE, pad |-> TRUE]}

\* One record per text: without "ps" the key order is the sorted one, a blob
\* that needs no padding has none to omit, and the two writers in the input
\* are the compact sorted one and the spaced one that puts "ps" first.
WellFormedBlob(b) ==
    /\ (b.ps = NoPs => b.order = "sorted")
    /\ (QuadPos(b) = 0 => b.pad)
    /\ (b.order = "sorted" <=> ~b.spaced)

\* vless URIs with the tails above, vmess URIs with a payload that
\* is not base64 JSON, vmess URIs with a JSON payload and at most one
\* character after it, and lines without a scheme.
InputUris ==
    {Uri("vless", NoBlob, r) : r \in VlessTails}
    \cup {Uri("vmess", NoBlob, r) : r \in {<<"a">>, <<"a", "#">>}}
    \cup {Uri("vmess", b, <<>>) : b \in {x \in Blobs : WellFormedBlob(x)}}
    \cup {Uri("vmess", b, <<"#">>) : b \in {x \in Blobs : WellFormedBlob(x) /\ x.pad}}
    \cup {Uri("vmess", b, <<"a">>) : b \in {x \in Blobs : WellFormedBlob(x) /\ ~x.pad}}
    \cup {Uri("", NoBlob, r) : r \in {<<>>, <<"#", "a">>}}

\* plain text, text wrapped in base64, or lines with prose around the URI
InputModes == {<<FALSE, FALSE>>, <<TRUE, FALSE>>, <<FALSE, TRUE>>}

InputTexts ==
    {[b64 |-> m[1], lines |-> [i \in 1..Len(us) |-> [prose |-> m[2], uri |-> us[i]]]] :
        m \in InputModes, us \in SeqsUpTo(InputUris, MaxLines)}

LineUris(t) == [i \in 1..Len(t.lines) |-> t.lines[i].uri]

\* ------------------------------------------------------------------
\* SpecUri: strip, parse, build and re-parse applied to an input text
\* ------------------------------------------------------------------
UriIdle ==
    /\ txt = [b64 |-> FALSE, lines |-> <<>>]
    /\ upc = "idle"
    /\ recs = <<>> /\ bin = <<>> /\ built = <<>> /\ recs2 = <<>>
    /\ s1 = <<>> /\ s2 = <<>>

UriInit ==
    /\ txt \in InputTexts
    /\ upc = "start"
    /\ recs = <<>> /\ bin = <<>> /\ built = <<>> /\ recs2 = <<>>
    /\ s1 = <<>> /\ s2 = <<>>
    /\ DbEmpty /\ IngestIdle /\ PublishIdle /\ StoreIdle /\ RunIdle /\ LaterIdle

\* strip_proxy_remark on every URI of the text
Strip ==
    /\ upc = "start"
    /\ s1' = [i \in 1..Len(txt.lines) |-> strip_proxy_remark(txt.lines[i].uri)]
    /\ upc' = "stripped"
    /\ UNCHANGED <<txt, recs, bin, built, recs2, s2>>
    /\ UNCHANGED nonUriVars

\* strip_proxy_remark on the stripped URIs
StripAgain ==
    /\ upc = "stripped"
    /\ s2' = [i \in 1..Len(s1) |-> strip_proxy_remark(s1[i])]
    /\ upc' = "stripped2"
    /\ UNCHANGED <<txt, recs, bin, built, recs2, s1>>
    /\ UNCHANGED nonUriVars

\* handler.parse(text)
Parse ==
    /\ upc = "stripped2"
    /\ recs' = parse(txt)
    /\ upc' = "parsed"
    /\ UNCHANGED <<txt, bin, built, recs2, s1, s2>>
    /\ UNCHANGED nonUriVars

\* handler.build(records) on the parsed records
BuildParsed ==
    /\ upc = "parsed"
    /\ bin' = recs
    /\ built' = build(recs)
    /\ upc' = "built"
    /\ UNCHANGED <<txt, recs, recs2, s1, s2>>
    /\ UNCHANGED nonUriVars

\* handler.build(records) on records read from storage: any list of lines
BuildStored ==
    /\ upc = "start"
    /\ txt.b64 = FALSE
    /\ bin' = [i \in 1..Len(txt.lines) |-> [unique_hash |-> hash_string(txt.lines[i].uri),
                                             line |-> txt.lines[i].uri]]
    /\ built' = build(bin')
    /\ upc' = "builtStored"
    /\ UNCHANGED <<txt, recs, recs2, s1, s2>>
    /\ UNCHANGED nonUriVars

\* handler.parse(artifact)
Reparse ==
    /\ upc = "built"
    /\ recs2' = parse(AsText(built))
    /\ upc' = "reparsed"
    /\ UNCHANGED <<txt, recs, bin, built, s1, s2>>
    /\ UNCHANGED nonUriVars

UriNext == Strip \/ StripAgain \/ Parse \/ BuildParsed \/ BuildStored \/ Reparse

SpecUri == UriInit /\ [][UriNext]_vars

\* ==================================================================
\* Properties of the canonicaliser and the npvt handler (SpecUri)
\* ==================================================================
AfterStripAgain == upc \in {"stripped2", "parsed", "built", "reparsed"}
AfterParse == upc \in {"parsed", "built", "reparsed"}
AfterBuild == upc \in {"built", "builtStored", "reparsed"}

\* C6: strip_proxy_remark is idempotent: stripping a stripped URI returns
\* it unchanged, for every URI (several "#", undecodable vmess payloads).
C6_StripIdempotent ==
    AfterStripAgain => \A i \in 1..Len(s1) : s2[i] = s1[i]

BeforeFirstHash(r) ==
    LET I == {i \in 1..Len(r) : r[i] = "#"}
    IN IF I = {} THEN r ELSE SubSeq(r, 1, (CHOOSE i \in I : \A j \in I : i <= j) - 1)

DifferOnlyInFragment(a, b) ==
    /\ a # b
    /\ a.scheme = b.scheme /\ a.scheme \in _PROXY_SCHEMES
    /\ a.blob = b.blob
    /\ BeforeFirstHash(a.rest) = BeforeFirstHash(b.rest)

DifferOnlyInPs(a, b) ==
    /\ a # b
    /\ a.scheme = "vmess" /\ b.scheme = "vmess"
    /\ a.rest = <<>> /\ b.rest = <<>>
    /\ a.blob.kind = "obj" /\ a.blob.ps # NoPs /\ b.blob.ps # NoPs
    /\ [a.blob EXCEPT !.ps = b.blob.ps] = b.blob

\* C7: two proxy URIs that differ only in their #fragment (everything from
\* the first "#"), or for vmess only in the ps field, have the same
\* strip_proxy_remark image, and one parse call over both emits one record.
C7_RemarkVariantsCollapse ==
    (AfterParse /\ Len(txt.lines) = 2
       /\ (DifferOnlyInFragment(txt.lines[1].uri, txt.lines[2].uri)
           \/ DifferOnlyInPs(txt.lines[1].uri, txt.lines[2].uri)))
    => (s1[1] = s1[2] /\ Len(recs) = 1)

\* First-occurrence list of the distinct canonical URIs of the build input.
RECURSIVE FirstOccurrences(_, _)
FirstOccurrences(us, acc) ==
    IF us = <<>> THEN acc
    ELSE IF Head(us) = NoUri \/ \E i \in 1..Len(acc) : acc[i] = Head(us)
         THEN FirstOccurrences(Tail(us), acc)
         ELSE FirstOccurrences(Tail(us), Append(acc, Head(us)))

CanonOfInput ==
    FirstOccurrences([i \in 1..Len(bin) |->
                        IF bin[i].line = NoUri THEN NoUri
                        ELSE strip_proxy_remark(bin[i].line)], <<>>)

IsTagToken(tok) ==
    \E sch \in _PROXY_SCHEMES \cup {"proxy"}, n \in 1..(MaxLines + 1) :
        tok = sch \o "-" \o ToString(n)

IsPrefix(p, r) == Len(p) <= Len(r) /\ SubSeq(r, 1, Len(p)) = p

\* line carries the tag and no other: as the only, final #fragment token
\* pair, or for vmess as the ps field of the JSON payload
CarriesOneTag(line, c, tag) ==
    IF c.scheme = "vmess"
    THEN /\ line.scheme = "vmess" /\ line.rest = <<>>
         /\ line.blob.kind = "obj" /\ line.blob.ps = tag
         /\ line.blob.add = _b64_decode_safe(c).add
    ELSE /\ line.scheme = c.scheme /\ line.blob = c.blob
         /\ Len(line.rest) >= 2
         /\ line.rest[Len(line.rest)] = tag
         /\ line.rest[Len(line.rest) - 1] = "#"
         /\ IsPrefix(SubSeq(line.rest, 1, Len(line.rest) - 2), c.rest)
         /\ Cardinality({k \in 1..Len(line.rest) : IsTagToken(line.rest[k])}) = 1

\* 1-based position of canonical URI i among those of its scheme
SchemeIndex(cs, i) ==
    Cardinality({j \in 1..i : SchemeOf(cs[j]) = SchemeOf(cs[i])})

Taggable(c) == c.scheme # "vmess" \/ _b64_decode_safe(c).kind = "obj"

C8_Witness_TwoOfOneScheme ==
    /\ upc = "builtStored"
    /\ Len(bin) = 2 /\ Len(built) = 2
    /\ built[1].scheme = "vless" /\ built[2].scheme = "vless"
    /\ built[2].rest[Len(built[2].rest)] = "vless-2"

C9_ParseBuildParseIdentity ==
    upc = "reparsed" => Range(recs2) = Range(recs)

\* ==================================================================
\* SpecIngest: ingestion runs of the worker pool
\*
\* A run is one transaction on the worker's own connection: its rows are
\* visible to the other connections after the commit, and SQLite lets one
\* connection write at a time.
\* ==================================================================
BATCH_SIZE == 2

IngestInit ==
    /\ DbEmpty /\ IngestIdle /\ UriIdle /\ PublishIdle /\ StoreIdle /\ RunIdle /\ LaterIdle

\* _worker takes a source from the queue and IngestionPipeline.run opens
\* the connection; no two workers hold the same source
StartIngest(w, src) ==
    /\ wk[w].pc = "idle"
    /\ ingestRuns < MaxIngestRuns
    /\ \A v \in Workers : wk[v].pc = "run" => wk[v].source_id # src
    /\ wk' = [wk EXCEPT ![w] = [IdleWorker EXCEPT !.pc = "run", !.source_id = src]]
    /\ ingestRuns' = ingestRuns + 1
    /\ UNCHANGED <<dbVars, dbWriter, nonIngestVars>>

\* one turn of the loop over connector.list_new: the item is buffered and a
\* full buffer is flushed through _process_batch
Yield(w, item) ==
    /\ wk[w].pc = "run"
    /\ wk[w].yielded < MaxFeed
    /\ LET buffer == Append(wk[w].buffer, item)
           r == _process_batch(seen_files, blobs, w, wk[w].source_id, buffer)
       IN IF Len(buffer) >= BATCH_SIZE
          THEN /\ (r.wrote => dbWriter \in {NoWorker, w})
               /\ seen_files' = r.seen_files
               /\ blobs' = r.blobs
               /\ dbWriter' = IF r.wrote THEN w ELSE dbWriter
               /\ wk' = [wk EXCEPT ![w].buffer = <<>>,
                                    ![w].yielded = @ + 1,
                                    ![w].count = @ + r.new_items_count,
                                    ![w].skipped_count = @ + r.skipped_count]
          ELSE /\ wk' = [wk EXCEPT ![w].buffer = buffer, ![w].yielded = @ + 1]
               /\ UNCHANGED <<seen_files, blobs, dbWriter>>
    /\ UNCHANGED <<source_state, ingestRuns, nonIngestVars>>

\* the connector is drained: the rest of the buffer is flushed, the source
\* state is upserted with the statistics and the transaction commits
FinishIngest(w) ==
    /\ wk[w].pc = "run"
    /\ dbWriter \in {NoWorker, w}
    /\ LET src == wk[w].source_id
           r == _process_batch(seen_files, blobs, w, src, wk[w].buffer)
           count == wk[w].count + r.new_items_count
           skipped_count == wk[w].skipped_count + r.skipped_count
       IN /\ seen_files' = CommitRows(r.seen_files, w)
          /\ blobs' = r.blobs
          /\ source_state' = WithStats(source_state, src, count, skipped_count)
    /\ dbWriter' = NoWorker
    /\ wk' = [wk EXCEPT ![w] = IdleWorker]
    /\ UNCHANGED <<ingestRuns, nonIngestVars>>

\* the connector raises: the exception leaves the with-block of
\* DBConnection.connect, which rolls the transaction back; saved blobs stay
AbortIngest(w) ==
    /\ wk[w].pc = "run"
    /\ seen_files' = SelectSeq(seen_files, LAMBDA row : row.tx # w)
    /\ dbWriter' = IF dbWriter = w THEN NoWorker ELSE dbWriter
    /\ wk' = [wk EXCEPT ![w] = IdleWorker]
    /\ UNCHANGED <<source_state, blobs, ingestRuns, nonIngestVars>>

IngestNext ==
    \/ \E w \in Workers, src \in Sources : StartIngest(w, src)
    \/ \E w \in Workers, item \in Items : Yield(w, item)
    \/ \E w \in Workers : FinishIngest(w)
    \/ \E w \in Workers : AbortIngest(w)

SpecIngest == IngestInit /\ [][IngestNext]_vars

\* C1: seen_files never holds two rows with the same (source_id,
\* external_id), whatever the workers ingested and however often a
\* connector yielded one external_id.
C1_SeenFilesUnique ==
    \A i, j \in 1..Len(seen_files) :
        (seen_files[i].source_id = seen_files[j].source_id
         /\ seen_files[i].external_id = seen_files[j].external_id) => i = j

\* C1 witness: a run counted more new items than its source has rows, so an
\* external_id yielded twice in one batch met INSERT OR IGNORE
C1_Witness_DuplicateIgnored ==
    \E w \in Workers :
        /\ wk[w].pc = "run"
        /\ wk[w].count > Cardinality({i \in 1..Len(seen_files) :
                                        seen_files[i].source_id = wk[w].source_id})

\* C24: when IngestionPipeline.run ends, by the connector raising as much
\* as by its being drained, every item that was waiting in the buffer has
\* its seen_files row recorded and the blob of that row saved: the buffer
\* is flushed before the exception goes to the caller.
C24_BufferFlushedBeforeRaise ==
    [][\A w \in Workers :
          (wk[w].pc = "run" /\ wk'[w].pc = "idle") =>
              \A i \in 1..Len(wk[w].buffer) :
                  \E k \in 1..Len(seen_files') :
                      /\ seen_files'[k].source_id = wk[w].source_id
                      /\ seen_files'[k].external_id = wk[w].buffer[i].external_id
                      /\ seen_files'[k].raw_hash \in blobs']_vars

\* ==================================================================
\* SpecPublish: PublishPipeline.run called with build results over time
\* ==================================================================
_ZIP_FORMATS == {"ovpn", "opaque_bundle", "ehi", "hc", "hat", "sip", "npv4", "nm", "dark"}

_EMPTY_ZIP_THRESHOLD == 22

\* artifact bytes: two contents and a minimal one (an empty ZIP is 22 bytes)
ArtDatas == {"A", "B", "E"}

\* the text artifact of one short URI: "dns://8.8.8.8#dns-1" is 19 bytes
ShortText == "txt[dns1]"

ArtSize(data) == IF data = "E" THEN 22 ELSE IF data = ShortText THEN 19 ELSE 100

BuildResults ==
    {[route_name |-> "r1", format |-> f, unique_id |-> "r1:" \o f,
      artifact_hash |-> sha256(d), data |-> d] : f \in {"npvt", "ovpn"}, d \in ArtDatas}

NoKey == "<no key>"
NoToken == "<no token>"

\* destinations of a route: one with its own token, one that relies on
\* the token of the environment
Dests == {[chat_id |-> "c1", token |-> "t1"], [chat_id |-> "c2", token |-> NoKey]}

\* DestinationConfig of the routes: token is Optional[str] = None, and
\* load_config passes d.get("token"), None when the YAML has no token
DestinationConfigs == {[chat_id |-> "c1", token |-> "t1"], [chat_id |-> "c3", token |-> NoToken]}

\* Orchestrator.run: dests = [{"chat_id": d.chat_id, ..., "token": d.token}]
OrchestratorDests == {[chat_id |-> d.chat_id, token |-> d.token] : d \in DestinationConfigs}

\* the values of PUBLISH_BOT_TOKEN and of TELEGRAM_TOKEN in the environment
NoEnv == [PUBLISH_BOT_TOKEN |-> NoToken, TELEGRAM_TOKEN |-> NoToken]

EnvTokens == {[PUBLISH_BOT_TOKEN |-> p, TELEGRAM_TOKEN |-> t] :
                p \in {"tp", NoToken}, t \in {"tt", NoToken}}

\* os.getenv("PUBLISH_BOT_TOKEN") or os.getenv("TELEGRAM_TOKEN")
default_token(env) ==
    IF env.PUBLISH_BOT_TOKEN # NoToken THEN env.PUBLISH_BOT_TOKEN ELSE env.TELEGRAM_TOKEN

\* dest.get("token", default_token)
TokenOf(dest, dflt) == IF dest.token = NoKey THEN dflt ELSE dest.token

\* SELECT artifact_hash ... WHERE route_name = ? ORDER BY published_at DESC
\* LIMIT 1: the rows that the query may return first; rows of one
\* published_at are in no specified order
get_last_published_hash(pa, route_name) ==
    LET I == {i \in 1..Len(pa) : pa[i].route_name = route_name}
        top == {i \in I : \A j \in I : pa[j].published_at <= pa[i].published_at}
    IN IF I = {} THEN {NoHash} ELSE {pa[i].artifact_hash : i \in top}

\* INSERT INTO published_artifacts; published_at DEFAULT CURRENT_TIMESTAMP
mark_published(pa, route_name, artifact_hash, now) ==
    Append(pa, [id |-> Len(pa) + 1, route_name |-> route_name,
                artifact_hash |-> artifact_hash, published_at |-> now])

PublishInit ==
    /\ PublishIdle /\ UriIdle /\ DbEmpty /\ IngestIdle /\ StoreIdle /\ RunIdle /\ LaterIdle

\* a second passes
Tick ==
    /\ clock < MaxClock
    /\ clock' = clock + 1
    /\ UNCHANGED <<published_artifacts, uploads, lastPublish, pubRuns, nonPubVars>>

\* PublishPipeline.run(build_result, destinations); sent is the set of
\* destinations whose upload did not raise
publish_run(build_result, destinations, env, sent) ==
    LET new_hash == build_result.artifact_hash
        unique_id == build_result.unique_id
        withToken == {d \in destinations : TokenOf(d, default_token(env)) # NoToken}
        report == [ran |-> TRUE, unique_id |-> unique_id, new_hash |-> new_hash,
                   last_hash |-> NoHash, attempted |-> {}, sent |-> {},
                   destinations |-> destinations, env |-> env,
                   looped |-> FALSE,
                   uploadsBefore |-> Len(uploads),
                   rowsBefore |-> Len(published_artifacts)]
    IN
    /\ IF build_result.format \in _ZIP_FORMATS
          /\ ArtSize(build_result.data) <= _EMPTY_ZIP_THRESHOLD
       THEN /\ sent = {}
            /\ lastPublish' = report
            /\ UNCHANGED <<published_artifacts, uploads>>
       ELSE \E last_hash \in get_last_published_hash(published_artifacts, unique_id) :
              IF last_hash = new_hash
              THEN /\ sent = {}
                   /\ lastPublish' = [report EXCEPT !.last_hash = last_hash]
                   /\ UNCHANGED <<published_artifacts, uploads>>
              ELSE /\ sent \subseteq withToken
                   /\ lastPublish' = [report EXCEPT !.last_hash = last_hash,
                                                    !.attempted = withToken,
                                                    !.looped = TRUE,
                                                    !.sent = sent]
                   /\ uploads' = uploads \o
                         SeqOfSet({[unique_id |-> unique_id, artifact_hash |-> new_hash,
                                    chat_id |-> d.chat_id] : d \in sent})
                   /\ published_artifacts' =
                         IF sent # {}
                         THEN mark_published(published_artifacts, unique_id, new_hash, clock)
                         ELSE published_artifacts

\* one call of PublishPipeline.run in SpecPublish
PublishRun(build_result, destinations, env, sent) ==
    /\ pubRuns < MaxPublishRuns
    /\ pubRuns' = pubRuns + 1
    /\ publish_run(build_result, destinations, env, sent)
    /\ UNCHANGED <<clock, nonPubVars>>

PublishNext ==
    \/ Tick
    \/ \E br \in BuildResults, ds \in (SUBSET Dests) \cup {OrchestratorDests},
          env \in EnvTokens :
          \E sent \in SUBSET ds : PublishRun(br, ds, env, sent)

SpecPublish == PublishInit /\ [][PublishNext]_vars

\* hash of the newest file of unique_id among the first n uploads
MostRecentUpload(n, unique_id) ==
    LET I == {i \in 1..n : uploads[i].unique_id = unique_id}
    IN IF I = {} THEN NoHash ELSE uploads[SetMax(I)].artifact_hash

\* C2: a PublishPipeline.run whose artifact_hash equals the hash of the most
\* recent successful publication of its unique_id attempts no upload,
\* whatever was published before and whenever.
C2_NoUploadWhenUnchanged ==
    (lastPublish.ran
     /\ lastPublish.new_hash
          = MostRecentUpload(lastPublish.uploadsBefore, lastPublish.unique_id))
    => (lastPublish.attempted = {} /\ Len(uploads) = lastPublish.uploadsBefore)

\* C3: get_last_published_hash(unique_id) is the hash of the last publish
\* of unique_id that succeeded at one destination or more (none when there
\* was no such publish), and a publish without a successful destination
\* leaves published_artifacts as it was.
C3_LastHashIsLastSuccess ==
    /\ \A br \in BuildResults :
          get_last_published_hash(published_artifacts, br.unique_id)
            = {MostRecentUpload(Len(uploads), br.unique_id)}
    /\ (lastPublish.ran /\ lastPublish.sent = {})
          => Len(published_artifacts) = lastPublish.rowsBefore

\* the token the precedence rule gives a destination: its own, else
\* PUBLISH_BOT_TOKEN, else TELEGRAM_TOKEN, else none
PrecedenceToken(d, env) ==
    IF d.token \notin {NoKey, NoToken} THEN d.token
    ELSE IF env.PUBLISH_BOT_TOKEN # NoToken THEN env.PUBLISH_BOT_TOKEN
    ELSE env.TELEGRAM_TOKEN

\* C14: when PublishPipeline.run reaches its loop over the destinations
\* the orchestrator built, a destination is attempted exactly when its
\* own token, PUBLISH_BOT_TOKEN or TELEGRAM_TOKEN exists: a destination
\* configured without a token is published with the environment token.
C14_EnvTokenForTokenlessDest ==
    (lastPublish.ran /\ lastPublish.looped)
    => \A d \in lastPublish.destinations \cap OrchestratorDests :
          (d \in lastPublish.attempted) <=> (PrecedenceToken(d, lastPublish.env) # NoToken)

\* ==================================================================
\* SpecStore: ingestion runs, transform, the build query and pruning
\* applied one after the other to one database
\* ==================================================================
TRANSFORM_BATCH_SIZE == 200

_BLOB_DEPENDENT_FORMATS ==
    {"opaque_bundle", "ovpn", "npv4", "ehi", "hc", "hat", "sip", "nm", "dark"}

\* the loop of IngestionPipeline.run over the items of the connector:
\* every BATCH_SIZE items, and at the end, the buffer goes to _process_batch
RECURSIVE IngestFeed(_, _, _, _)
IngestFeed(acc, w, src, feed) ==
    IF feed = <<>> THEN acc
    ELSE LET n == IF Len(feed) >= BATCH_SIZE THEN BATCH_SIZE ELSE Len(feed)
             r == _process_batch(acc.seen_files, acc.blobs, w, src, SubSeq(feed, 1, n))
         IN IngestFeed([seen_files |-> r.seen_files, blobs |-> r.blobs,
                        count |-> acc.count + r.new_items_count,
                        skipped_count |-> acc.skipped_count + r.skipped_count],
                       w, src, SubSeq(feed, n + 1, Len(feed)))

\* the bytes stored under a hash
RawGet(h) == CHOOSE d \in FileDatas : sha256(d) = h

\* decide_format: d2 is a file named *.ovpn, d1 a text with proxy URIs
decide_format(data) == IF data = "d2" THEN "ovpn" ELSE "npvt"

\* selector.include_formats of the source configuration
include_formats(src) == IF src = "s2" THEN {"npvt"} ELSE {"all"}

\* handler.parse: the (record_type, unique_hash) of the records of a file;
\* a bundle is one record whose unique_hash is the hash of the file
ParsedRecords(raw_hash, fmt) ==
    IF fmt \in _BLOB_DEPENDENT_FORMATS
    THEN <<[source_file_hash |-> raw_hash, record_type |-> fmt, unique_hash |-> raw_hash]>>
    ELSE <<[source_file_hash |-> raw_hash, record_type |-> fmt, unique_hash |-> "uri1"]>>

\* FormatRegistry.get: the handler, or None for a format without one
registry_get(handlers, fmt_id) == fmt_id \in handlers

\* TransformPipeline._process_single_file with the registry the pipeline
\* was constructed with; raises is the set of files whose parse raises
\* "boom". status is the status of the status_update
_process_single_file(row, bl, handlers, bad) ==
    IF row.raw_hash \notin bl
    THEN [status |-> "failed", error_msg |-> "Raw data missing", record_rows |-> <<>>,
          raw_hash |-> row.raw_hash]
    ELSE LET fmt_id == decide_format(RawGet(row.raw_hash))
             allowed == include_formats(row.source_id)
         IN IF fmt_id \notin allowed /\ "all" \notin allowed
            THEN [status |-> "ignored", error_msg |-> "Format " \o fmt_id \o " not allowed",
                  record_rows |-> <<>>, raw_hash |-> row.raw_hash]
            ELSE IF ~registry_get(handlers, fmt_id)
            THEN [status |-> "failed", error_msg |-> "No handler for " \o fmt_id,
                  record_rows |-> <<>>, raw_hash |-> row.raw_hash]
            ELSE IF RawGet(row.raw_hash) \in bad
            THEN [status |-> "failed", error_msg |-> "Parse error: boom",
                  record_rows |-> <<>>, raw_hash |-> row.raw_hash]
            ELSE [status |-> "processed", error_msg |-> NoMsg,
                  record_rows |-> ParsedRecords(row.raw_hash, fmt_id),
                  raw_hash |-> row.raw_hash]

\* add_records_batch: INSERT INTO records, ids in insertion order
RECURSIVE add_records_batch(_, _)
add_records_batch(rcs, rows) ==
    IF rows = <<>> THEN rcs
    ELSE add_records_batch(
            Append(rcs, [id |-> Len(rcs) + 1,
                          source_file_hash |-> Head(rows).source_file_hash,
                          record_type |-> Head(rows).record_type,
                          unique_hash |-> Head(rows).unique_hash,
                          is_active |-> 1]),
            Tail(rows))

\* update_file_status_batch: UPDATE seen_files SET status WHERE raw_hash = ?
RECURSIVE update_file_status_batch(_, _)
update_file_status_batch(sf, updates) ==
    IF updates = <<>> THEN sf
    ELSE update_file_status_batch(
            [i \in 1..Len(sf) |-> IF sf[i].raw_hash = Head(updates).raw_hash
                                  THEN [sf[i] EXCEPT !.status = Head(updates).status,
                                                     !.error_msg = Head(updates).error_msg]
                                  ELSE sf[i]],
            Tail(updates))

\* get_pending_files
get_pending_files(sf) == SelectSeq(sf, LAMBDA row : row.status = "pending")

RECURSIVE Flatten(_)
Flatten(ss) == IF ss = <<>> THEN <<>> ELSE Head(ss) \o Flatten(Tail(ss))

Repeat(x, n) == [i \in 1..n |-> x]

\* the pairs (record, seen_files row) of the CTE "filtered"
filtered(rcs, sf, record_types, allowed_source_ids, min_seen_file_id) ==
    {p \in (1..Len(rcs)) \X (1..Len(sf)) :
        /\ rcs[p[1]].source_file_hash = sf[p[2]].raw_hash
        /\ rcs[p[1]].record_type \in record_types
        /\ sf[p[2]].source_id \in allowed_source_ids
        /\ rcs[p[1]].is_active = 1
        /\ (min_seen_file_id # NoMin => sf[p[2]].id > min_seen_file_id)}

\* get_records_for_build: "filtered" joined with its per-group MAX(id),
\* ordered by record id; one output row per row of "filtered"
RECURSIVE JoinDedup(_, _, _)
JoinDedup(rcs, F, i) ==
    IF i > Len(rcs) THEN <<>>
    ELSE LET copies == Cardinality({p \in F : p[1] = i})
             keep_id == SetMax({rcs[p[1]].id : p \in
                            {q \in F : /\ rcs[q[1]].record_type = rcs[i].record_type
                                       /\ rcs[q[1]].unique_hash = rcs[i].unique_hash}})
         IN (IF copies > 0 /\ rcs[i].id = keep_id THEN Repeat(rcs[i], copies) ELSE <<>>)
            \o JoinDedup(rcs, F, i + 1)

get_records_for_build(rcs, sf, record_types, allowed_source_ids, min_seen_file_id) ==
    IF record_types = {} \/ allowed_source_ids = {} THEN <<>>
    ELSE JoinDedup(rcs,
                   filtered(rcs, sf, record_types, allowed_source_ids, min_seen_file_id), 1)

\* every raw_hash of a row that is no longer pending
get_processed_hashes_unfiltered(sf, rcs) ==
    {sf[i].raw_hash : i \in {k \in 1..Len(sf) : sf[k].status # "pending"}}

\* get_processed_hashes: raw_hash of the rows that are no longer pending,
\* NOT IN the source_file_hash of active blob-dependent records
get_processed_hashes(sf, rcs) ==
    {sf[i].raw_hash : i \in {k \in 1..Len(sf) : sf[k].status # "pending"}}
    \ {rcs[i].source_file_hash : i \in {k \in 1..Len(rcs) :
            /\ rcs[k].record_type \in _BLOB_DEPENDENT_FORMATS
            /\ rcs[k].is_active = 1}}

\* what the connectors yield in SpecStore: one file, two files, and one
\* file posted under two message ids
StoreFeeds ==
    {<<[external_id |-> "m1", data |-> "d1"]>>,
     <<[external_id |-> "m2", data |-> "d2"]>>,
     <<[external_id |-> "m1", data |-> "d1"], [external_id |-> "m2", data |-> "d1"]>>,
     <<[external_id |-> "m1", data |-> "d1"], [external_id |-> "m2", data |-> "d2"]>>}

\* the calls of get_records_for_build in SpecStore
QueryArgs ==
    {<<{"npvt", "ovpn"}, Sources, NoMin>>, <<{"npvt"}, {"s1"}, NoMin>>,
     <<{"npvt", "ovpn"}, Sources, 1>>, <<{"ovpn"}, {}, NoMin>>,
     <<{"npvt", "ovpn"}, {"s2"}, NoMin>>}

StoreInit ==
    /\ DbEmpty /\ StoreIdle /\ UriIdle /\ IngestIdle /\ PublishIdle /\ RunIdle /\ LaterIdle

\* IngestionPipeline.run for one source, from open to commit
IngestSource(src, feed) ==
    /\ storeOps < MaxStoreOps
    /\ storeOps' = storeOps + 1
    /\ LET r == IngestFeed([seen_files |-> seen_files, blobs |-> blobs,
                            count |-> 0, skipped_count |-> 0], "w1", src, feed)
       IN /\ seen_files' = CommitRows(r.seen_files, "w1")
          /\ blobs' = r.blobs
          /\ source_state' = WithStats(source_state, src, r.count, r.skipped_count)
    /\ lastQuery' = NoQuery /\ lastPrune' = NoPrune
    /\ UNCHANGED <<records, nonStoreVars>>

\* the orders in which the thread pool may complete n files
Orders(n) == {o \in [1..n -> 1..n] : \A i, j \in 1..n : o[i] = o[j] => i = j}

\* TransformPipeline.process_pending on one batch: the pending files are
\* parsed by a thread pool and their results are flushed in the order of
\* completion
process_pending(sf, rcs, bl, order, handlers, bad) ==
    LET pending_files == get_pending_files(sf)
        n == Len(pending_files)
        batch_results == [i \in 1..n |->
                      _process_single_file(pending_files[order[i]], bl, handlers, bad)]
    IN IF n = 0 THEN [seen_files |-> sf, records |-> rcs]
       ELSE [seen_files |-> update_file_status_batch(sf, batch_results),
             records |-> add_records_batch(rcs,
                            Flatten([i \in 1..n |-> batch_results[i].record_rows]))]

\* a call of process_pending that finds pending files
ProcessPending(order) ==
    LET n == Len(get_pending_files(seen_files))
        r == process_pending(seen_files, records, blobs, order, registry, raises)
    IN /\ storeOps < MaxStoreOps
       /\ storeOps' = storeOps + 1
       /\ n > 0
       /\ n <= TRANSFORM_BATCH_SIZE
       /\ order \in Orders(n)
       /\ records' = r.records
       /\ seen_files' = r.seen_files
       /\ lastQuery' = NoQuery /\ lastPrune' = NoPrune
       /\ UNCHANGED <<source_state, blobs, nonStoreVars>>

\* a call of get_records_for_build
QueryRecords(record_types, allowed_source_ids, min_seen_file_id) ==
    /\ lastQuery' = [ran |-> TRUE, record_types |-> record_types,
                     allowed_source_ids |-> allowed_source_ids,
                     min_seen_file_id |-> min_seen_file_id,
                     rows |-> get_records_for_build(records, seen_files, record_types,
                                                    allowed_source_ids, min_seen_file_id)]
    /\ lastPrune' = NoPrune
    /\ UNCHANGED <<dbVars, records, storeOps, nonStoreVars>>

\* RawStore.prune_processed(state_repo)
PruneProcessed ==
    /\ storeOps < MaxStoreOps
    /\ storeOps' = storeOps + 1
    /\ blobs' = blobs \ get_processed_hashes(seen_files, records)
    /\ lastPrune' = [ran |-> TRUE, before |-> blobs, after |-> blobs']
    /\ lastQuery' = NoQuery
    /\ UNCHANGED <<seen_files, source_state, records, nonStoreVars>>

StoreNext ==
    \/ \E src \in Sources, feed \in StoreFeeds : IngestSource(src, feed)
    \/ \E order \in UNION {[1..n -> 1..n] : n \in 1..Cardinality(Sources \X ExternalIds)} :
          ProcessPending(order)
    \/ \E q \in QueryArgs : QueryRecords(q[1], q[2], q[3])
    \/ PruneProcessed

SpecStore == StoreInit /\ [][StoreNext]_vars

\* records that the last query may return: active, of a requested type,
\* from a file of an allowed source (newer than the cutoff, if one is given)
Eligible(i) ==
    /\ records[i].is_active = 1
    /\ records[i].record_type \in lastQuery.record_types
    /\ \E k \in 1..Len(seen_files) :
          /\ seen_files[k].raw_hash = records[i].source_file_hash
          /\ seen_files[k].source_id \in lastQuery.allowed_source_ids
          /\ (lastQuery.min_seen_file_id # NoMin
                => seen_files[k].id > lastQuery.min_seen_file_id)

SameGroup(a, b) == a.record_type = b.record_type /\ a.unique_hash = b.unique_hash

\* C5: get_records_for_build returns at most one row per (record_type,
\* unique_hash), that row is the record with the greatest id of its group,
\* and the rows are in ascending order of id, for every database state.
C5_OneRowPerGroupMaxIdAscending ==
    lastQuery.ran =>
        LET rows == lastQuery.rows
        IN /\ \A i, j \in 1..Len(rows) : SameGroup(rows[i], rows[j]) => i = j
           /\ \A i \in 1..Len(rows) :
                 \A k \in 1..Len(records) :
                    (Eligible(k) /\ SameGroup(records[k], rows[i]))
                       => records[k].id <= rows[i].id
           /\ \A i, j \in 1..Len(rows) : i < j => rows[i].id < rows[j].id

NonPending(h) ==
    \E k \in 1..Len(seen_files) :
        seen_files[k].raw_hash = h /\ seen_files[k].status # "pending"

ReferencedByBundle(h) ==
    \E k \in 1..Len(records) :
        /\ records[k].source_file_hash = h
        /\ records[k].is_active = 1
        /\ records[k].record_type \in
              {"opaque_bundle", "ovpn", "npv4", "ehi", "hc", "hat", "sip", "nm", "dark"}

\* C10: prune_processed removes exactly the blobs whose hash is in
\* seen_files with a status other than pending and is not the
\* source_file_hash of an active record of a blob-dependent format; every
\* other blob stays.
C10_PruneExact ==
    lastPrune.ran =>
        /\ lastPrune.after \subseteq lastPrune.before
        /\ \A h \in lastPrune.before :
              h \notin lastPrune.after <=> (NonPending(h) /\ ~ReferencedByBundle(h))

\* C10 witness: a prune that removed a processed blob, kept the blob of a
\* processed bundle file and kept the blob of a pending file
C10_Witness_RemovedAndKept ==
    /\ lastPrune.ran
    /\ lastPrune.before \ lastPrune.after # {}
    /\ \E h \in lastPrune.after : NonPending(h) /\ ReferencedByBundle(h)

C10_Witness_PendingKept ==
    /\ lastPrune.ran
    /\ lastPrune.before \ lastPrune.after # {}
    /\ \E h \in lastPrune.after : ~NonPending(h)

\* C20: a transform batch sets every pending seen-file row to the status
\* of its own processing, also when another row of the batch has the same
\* raw_hash, and changes the status of no row that was not pending.
C20_FailureTouchesOwnRowOnly ==
    [][\A i \in 1..Len(seen_files) :
          i <= Len(seen_files') =>
            /\ seen_files[i].status # "pending"
                  => seen_files'[i].status = seen_files[i].status
            /\ (seen_files[i].status = "pending" /\ seen_files'[i].status # "pending")
                  => seen_files'[i].status
                       = _process_single_file(seen_files[i], blobs,
                                              RegisteredFormats, {}).status]_vars

\* C33: prune_processed never removes the blob of a seen-file that is still
\* pending, also when another seen-file with the same raw_hash is no
\* longer pending and when no transform ran between ingestion and cleanup.
C33_PruneKeepsPendingBlobs ==
    lastPrune.ran =>
        \A k \in 1..Len(seen_files) :
            (seen_files[k].status = "pending" /\ seen_files[k].raw_hash \in lastPrune.before)
                => seen_files[k].raw_hash \in lastPrune.after

\* ==================================================================
\* SpecRun: Orchestrator.run called again and again on one data
\* directory, the connectors yielding the same items in every run
\* ==================================================================
MaxRuns == 2        \* runs of the orchestrator in one behaviour
MaxRunClock == 2    \* seconds that pass in one behaviour of SpecRun

\* the route of the configuration
RouteName == "r1"

RouteFormats == <<"npvt", "ovpn">>

RouteSources == Sources

\* its destination, with a token of its own
RouteDests == {[chat_id |-> "c1", token |-> "t1"]}

\* what the connectors yield in every run: nothing; a text with proxy
\* URIs; a file named *.ovpn, which the selector of s2 does not admit; a
\* text and a bundle from s1 and the same text from s2
RunFeeds ==
    {[s \in Sources |-> <<>>],
     [s \in Sources |-> IF s = "s1" THEN <<[external_id |-> "m1", data |-> "d1"]>>
                                     ELSE <<>>],
     [s \in Sources |-> <<[external_id |-> "m2", data |-> "d2"]>>],
     [s \in Sources |-> IF s = "s1" THEN <<[external_id |-> "m1", data |-> "d1"],
                                           [external_id |-> "m2", data |-> "d2"]>>
                                     ELSE <<[external_id |-> "m1", data |-> "d1"]>>]}

RECURSIVE Concat(_)
Concat(ss) == IF ss = <<>> THEN "" ELSE Head(ss) \o Concat(Tail(ss))

\* an archive without members
EmptyZip == "E"

\* the date_time that ZipFile.writestr stores with a member: the local
\* time of the call, in units of two seconds
ZipTime(now) == now \div 2

\* NpvtHandler.build: the lines of the records, each line once
NpvtBuild(fmt_records) ==
    LET firsts == SelectSeq([i \in 1..Len(fmt_records) |->
                      IF \E j \in 1..(i - 1) :
                            fmt_records[j].unique_hash = fmt_records[i].unique_hash
                      THEN "" ELSE fmt_records[i].unique_hash],
                    LAMBDA l : l # "")
    IN IF firsts = <<>> THEN "" ELSE "txt[" \o Concat(firsts) \o "]"

\* OpaqueBundleHandler.build: a ZIP with one member per record whose blob
\* is still in the raw store, each member written by writestr
BundleBuild(fmt_records, bl, now) ==
    LET present == SelectSeq(fmt_records, LAMBDA r : r.unique_hash \in bl)
        members == [i \in 1..Len(present) |-> RawGet(present[i].unique_hash)]
    IN IF members = <<>> THEN EmptyZip
       ELSE "zip[" \o Concat(members) \o "]@" \o ToString(ZipTime(now))

\* handler.build of the format
handler_build(fmt, fmt_records, bl, now) ==
    IF fmt \in _BLOB_DEPENDENT_FORMATS THEN BundleBuild(fmt_records, bl, now)
    ELSE NpvtBuild(fmt_records)

\* _decode_proxy_links and _reencode_as_base64_sub of a text artifact
_decode_proxy_links(artifact_bytes) == "json[" \o artifact_bytes \o "]"

_reencode_as_base64_sub(artifact_bytes) == "b64[" \o artifact_bytes \o "]"

\* ArtifactStore.save_to_archive: <route>_<timestamp>.<format>
save_to_archive(ar, route_name, format_id, data, now) ==
    {f \in ar : ~(f.name = route_name \o "." \o format_id /\ f.timestamp = now)}
    \cup {[name |-> route_name \o "." \o format_id, timestamp |-> now, data |-> data]}

\* writing a file: the name keeps one content
WriteFile(files, name, data) ==
    {f \in files : f.name # name} \cup {[name |-> name, data |-> data]}

\* ArtifactStore.save_output: the output file is overwritten and a copy
\* goes to the archive
save_output(st, route_name, format_id, data, now) ==
    [st EXCEPT !.output_files = WriteFile(st.output_files,
                                          route_name \o "." \o format_id, data),
               !.archive = save_to_archive(st.archive, route_name, format_id, data, now)]

\* ArtifactStore.save_artifact: the file is named by the hash of the bytes
save_artifact(st, route_name, format_id, data) ==
    [st EXCEPT !.artifact_files = st.artifact_files \cup
        {[route_name |-> route_name, format |-> format_id, artifact_hash |-> sha256(data)]}]

BuildResult(route_name, format, artifact_hash, data) ==
    [route_name |-> route_name, format |-> format,
     unique_id |-> route_name \o ":" \o format,
     artifact_hash |-> artifact_hash, data |-> data]

\* a format whose records gave no bytes, or the bytes of a ZIP without
\* members, is skipped
is_skipped_unless_empty(fmt_records, artifact_bytes) ==
    \/ fmt_records = <<>>
    \/ artifact_bytes = ""

\* BuildPipeline.run skips a format without records of its type, without
\* bytes, or with bytes no longer than _EMPTY_ZIP_THRESHOLD
is_skipped(fmt_records, artifact_bytes) ==
    \/ fmt_records = <<>>
    \/ artifact_bytes = ""
    \/ ArtSize(artifact_bytes) <= _EMPTY_ZIP_THRESHOLD

\* the loop of BuildPipeline.run over the formats of the route; st holds
\* the files of the artifact store and the results so far
RECURSIVE build_formats(_, _, _, _, _, _)
build_formats(st, route_name, formats, rows, bl, now) ==
    IF formats = <<>> THEN st
    ELSE
    LET fmt == Head(formats)
        fmt_records == SelectSeq(rows, LAMBDA r : r.record_type = fmt)
        artifact_bytes == handler_build(fmt, fmt_records, bl, now)
        artifact_hash == sha256(artifact_bytes)
        saved == save_output(save_artifact(st, route_name, fmt, artifact_bytes),
                             route_name, fmt, artifact_bytes, now)
        decoded == _decode_proxy_links(artifact_bytes)
        reencoded == _reencode_as_base64_sub(artifact_bytes)
        withDecoded ==
            [save_output(saved, route_name, fmt \o ".decoded.json", decoded, now)
                EXCEPT !.results = Append(saved.results,
                    BuildResult(route_name, fmt \o ".decoded.json",
                                artifact_hash \o "_dec", decoded))]
        withReencoded ==
            [save_output(withDecoded, route_name, fmt \o ".b64sub", reencoded, now)
                EXCEPT !.results = Append(withDecoded.results,
                    BuildResult(route_name, fmt \o ".b64sub",
                                artifact_hash \o "_b64", reencoded))]
        derived == IF fmt \in {"npvt", "npvtsub"} THEN withReencoded ELSE saved
        done == [derived EXCEPT !.results = Append(derived.results,
                    BuildResult(route_name, fmt, artifact_hash, artifact_bytes))]
    IN build_formats(
          IF is_skipped(fmt_records, artifact_bytes) THEN st ELSE done,
          route_name, Tail(formats), rows, bl, now)

\* the query of BuildPipeline.run: get_records_for_build(formats,
\* allowed_source_ids), the key min_seen_file_id of route_config is not read
build_records(rcs, sf, formats, allowed_source_ids) ==
    get_records_for_build(rcs, sf, Range(formats), allowed_source_ids, NoMin)

\* BuildPipeline.run(route_config): the records of the route are fetched
\* without a cutoff and one artifact is built per format
build_run(st, route_name, formats, allowed_source_ids, rcs, sf, bl, now) ==
    LET rows == build_records(rcs, sf, formats, allowed_source_ids)
    IN IF rows = <<>> THEN st
       ELSE build_formats(st, route_name, formats, rows, bl, now)

\* Orchestrator._output_filename
_output_filename(route, fmt) ==
    LET bases == {"npvt", "npvtsub"}
    IN IF \E b \in bases : fmt = b \o ".decoded.json"
       THEN route \o "_" \o (CHOOSE b \in bases : fmt = b \o ".decoded.json")
                  \o "_decoded.json"
       ELSE IF \E b \in bases : fmt = b \o ".b64sub"
       THEN route \o "_" \o (CHOOSE b \in bases : fmt = b \o ".b64sub") \o "_b64sub.txt"
       ELSE route \o "." \o fmt

\* name.startswith(rt)
startswith(name, rt) == Len(rt) <= Len(name) /\ SubSeq(name, 1, Len(rt)) = rt

\* output_payloads of _export_outputs: the dict from file name to data;
\* a result without data is left out and a later result of the same file
\* name replaces an earlier one
output_payloads(build_results) ==
    LET I == {i \in 1..Len(build_results) : build_results[i].data # ""}
        name(i) == _output_filename(build_results[i].route_name, build_results[i].format)
        last == {i \in I : \A j \in I : name(j) = name(i) => j <= i}
    IN {[name |-> name(i), data |-> build_results[i].data] : i \in last}

\* _export_outputs that takes every file of outputs/ for a route file
_export_outputs_any_file(outs, build_results, routes_in_play) ==
    LET payloads == output_payloads(build_results)
        stale == {f \in outs : \A q \in payloads : q.name # f.name}
        overwritten == {f \in outs : \E q \in payloads : q.name = f.name}
    IN ((outs \ stale) \ overwritten) \cup payloads

\* Orchestrator._export_outputs: a file of outputs/ whose name starts with
\* the name of a configured route and is not a payload of this run is
\* removed as stale; then every payload is written over the file of its
\* name
_export_outputs(outs, build_results, routes_in_play) ==
    LET payloads == output_payloads(build_results)
        stale == {f \in outs : /\ \E rt \in routes_in_play : startswith(f.name, rt)
                               /\ \A q \in payloads : q.name # f.name}
        overwritten == {f \in outs : \E q \in payloads : q.name = f.name}
    IN ((outs \ stale) \ overwritten) \cup payloads

\* Orchestrator._export_dev_outputs: the URIs of all npvt records enter the
\* manifest with the time of their first run, and the files of
\* outputs_dev/ are written again with the time of this run
_export_dev_outputs(dev, rcs, sf, now) ==
    LET history_records == get_records_for_build(rcs, sf, {"npvt", "npvtsub"}, Sources, NoMin)
        keys == {history_records[i].unique_hash : i \in 1..Len(history_records)}
        manifest == dev.manifest \cup
            {[key |-> k, first_seen |-> now] :
                k \in {x \in keys : \A m \in dev.manifest : m.key # x}}
    IN IF manifest = {} THEN dev
       ELSE [manifest |-> manifest, generated |-> now]

\* ArtifactStore.prune_archive(retention_days = 4)
RETENTION_SECONDS == 4 * 86400

prune_archive(ar, now) == {f \in ar : ~(f.timestamp < now - RETENTION_SECONDS)}

RunInit ==
    /\ DbEmpty /\ IngestIdle /\ PublishIdle /\ StoreIdle /\ UriIdle /\ LaterIdle
    /\ rpc = "idle"
    /\ runNo = 0
    /\ feeds \in RunFeeds
    /\ source_queue = {}
    /\ all_build_results = <<>>
    /\ toPublish = {}
    /\ artifact_files = {}
    /\ output_files = {}
    /\ archive = {}
    /\ outputs = {}
    /\ outputs_dev = NoDevOutputs
    /\ afterRun1 = NoSnapshot
    /\ lastBuild = NoBuild

\* a second passes, between two runs or while the publish tasks upload
RunTick ==
    /\ \/ rpc = "idle"
       \/ rpc = "publish" /\ toPublish = Range(all_build_results)
    /\ clock < MaxRunClock
    /\ clock' = clock + 1
    /\ UNCHANGED <<published_artifacts, uploads, lastPublish, pubRuns,
                   laterVars, uriVars, dbVars, ingestVars, storeVars, runVars>>

\* Orchestrator._get_seen_file_max_id: SELECT COALESCE(MAX(id), 0)
_get_seen_file_max_id(sf) ==
    IF sf = <<>> THEN 0 ELSE SetMax({sf[i].id : i \in 1..Len(sf)})

\* Orchestrator.run starts: the cutoff is read and every source is put on
\* the queue
StartRun ==
    /\ rpc = "idle"
    /\ runNo < MaxRuns
    /\ rpc' = "ingest"
    /\ source_queue' = Sources
    /\ all_build_results' = <<>>
    /\ toPublish' = {}
    /\ results' = NoResults
    /\ seen_file_cutoff_id' = _get_seen_file_max_id(seen_files)
    /\ UNCHANGED <<runNo, feeds, artifact_files, output_files, archive, outputs,
                   outputs_dev, afterRun1, lastBuild, failing,
                   atomVars, transVars, routeVars, cliVars, nonCutVars,
                   uriVars, dbVars, ingestVars, pubVars, storeVars>>

\* phase 1: a worker takes a source from the queue and runs
\* IngestionPipeline.run on it, from open to commit; _ingest_one_source
\* returns True
RunIngest(src) ==
    /\ rpc = "ingest"
    /\ src \in source_queue
    /\ src \notin failing
    /\ source_queue' = source_queue \ {src}
    /\ results' = [results EXCEPT !.ok = @ + 1]
    /\ LET r == IngestFeed([seen_files |-> seen_files, blobs |-> blobs,
                            count |-> 0, skipped_count |-> 0], "w1", src, feeds[src])
       IN /\ seen_files' = CommitRows(r.seen_files, "w1")
          /\ blobs' = r.blobs
          /\ source_state' = WithStats(source_state, src, r.count, r.skipped_count)
    /\ UNCHANGED <<rpc, runNo, feeds, all_build_results, toPublish, artifact_files,
                   output_files, archive, outputs, outputs_dev, afterRun1, lastBuild,
                   failing, atomVars, transVars, routeVars, cliVars, moreVars,
                   uriVars, ingestVars, pubVars, storeVars>>

\* phase 1: the connector of the source raises after it yielded k items;
\* the exception leaves IngestionPipeline.run, whose transaction is rolled
\* back (saved blobs stay), and _ingest_one_source returns False
RunIngestFails(src, k) ==
    /\ rpc = "ingest"
    /\ src \in source_queue
    /\ src \in failing
    /\ k \in 0..Len(feeds[src])
    /\ source_queue' = source_queue \ {src}
    /\ results' = [results EXCEPT !.err = @ + 1]
    /\ LET full == (k \div BATCH_SIZE) * BATCH_SIZE
           r == IngestFeed([seen_files |-> seen_files, blobs |-> blobs,
                            count |-> 0, skipped_count |-> 0], "w1", src,
                           SubSeq(feeds[src], 1, full))
       IN blobs' = r.blobs
    /\ UNCHANGED <<seen_files, source_state,
                   rpc, runNo, feeds, all_build_results, toPublish, artifact_files,
                   output_files, archive, outputs, outputs_dev, afterRun1, lastBuild,
                   failing, atomVars, transVars, routeVars, cliVars, moreVars,
                   uriVars, ingestVars, pubVars, storeVars>>

\* phase 2: TransformPipeline.process_pending, once every worker is done
RunTransform(order) ==
    /\ rpc = "ingest"
    /\ source_queue = {}
    /\ Len(get_pending_files(seen_files)) <= TRANSFORM_BATCH_SIZE
    /\ order \in Orders(Len(get_pending_files(seen_files)))
    /\ LET r == process_pending(seen_files, records, blobs, order, registry, raises)
       IN /\ seen_files' = r.seen_files
          /\ records' = r.records
    /\ rpc' = "build"
    /\ UNCHANGED <<source_state, blobs, lastQuery, lastPrune, storeOps,
                   runNo, feeds, source_queue, all_build_results, toPublish,
                   artifact_files, output_files, archive, outputs, outputs_dev, afterRun1, lastBuild,
                   laterVars, uriVars, ingestVars, pubVars>>

\* phase 3: BuildPipeline.run on the route; a publish task is submitted
\* for each of its results
RunBuild ==
    /\ rpc = "build"
    /\ LET st == build_run([artifact_files |-> artifact_files,
                            output_files |-> output_files,
                            archive |-> archive, results |-> <<>>],
                           RouteName, RouteFormats, RouteSources,
                           records, seen_files, blobs, clock)
       IN /\ artifact_files' = st.artifact_files
          /\ output_files' = st.output_files
          /\ archive' = st.archive
          /\ all_build_results' = st.results
          /\ toPublish' = Range(st.results)
    /\ lastBuild' = [ran |-> TRUE, records |-> records, seen_files |-> seen_files,
                      blobs |-> blobs, now |-> clock,
                      artifact_files |-> artifact_files, output_files |-> output_files,
                      published_artifacts |-> published_artifacts]
    /\ rpc' = "publish"
    /\ UNCHANGED <<runNo, feeds, source_queue, outputs, outputs_dev, afterRun1,
                   laterVars, uriVars, dbVars, ingestVars, pubVars, storeVars>>

\* phase 3: one of the submitted publish tasks runs PublishPipeline.run
RunPublish(res, sent) ==
    /\ rpc = "publish"
    /\ res \in toPublish
    /\ toPublish' = toPublish \ {res}
    /\ publish_run(res, RouteDests, NoEnv, sent)
    /\ UNCHANGED <<clock, pubRuns,
                   rpc, runNo, feeds, source_queue, all_build_results, artifact_files,
                   output_files, archive, outputs, outputs_dev, afterRun1, lastBuild,
                   laterVars, uriVars, dbVars, ingestVars, storeVars>>

\* phase 3b: _export_outputs and _export_dev_outputs, once every publish
\* task is done
RunExport ==
    /\ rpc = "publish"
    /\ toPublish = {}
    /\ outputs' = _export_outputs(outputs, all_build_results, {RouteName})
    /\ outputs_dev' = _export_dev_outputs(outputs_dev, records, seen_files, clock)
    /\ rpc' = "cleanup"
    /\ UNCHANGED <<runNo, feeds, source_queue, all_build_results, toPublish,
                   artifact_files, output_files, archive, afterRun1, lastBuild,
                   laterVars, uriVars, dbVars, ingestVars, pubVars, storeVars>>

\* phase 4: prune_processed and prune_archive; the run is over
RunCleanup ==
    /\ rpc = "cleanup"
    /\ blobs' = blobs \ get_processed_hashes(seen_files, records)
    /\ archive' = prune_archive(archive, clock)
    /\ rpc' = "idle"
    /\ runNo' = runNo + 1
    /\ afterRun1' =
          IF runNo = 0
          THEN [taken |-> TRUE, seen_files |-> seen_files, records |-> records,
                source_state |-> source_state,
                published_artifacts |-> published_artifacts,
                artifact_files |-> artifact_files, output_files |-> output_files,
                outputs |-> outputs, all_build_results |-> all_build_results]
          ELSE afterRun1
    /\ UNCHANGED <<seen_files, source_state, feeds, source_queue, all_build_results,
                   toPublish, artifact_files, output_files, outputs, outputs_dev, lastBuild,
                   laterVars, uriVars, ingestVars, pubVars, storeVars>>

RunNext ==
    \/ RunTick
    \/ StartRun
    \/ \E src \in Sources : RunIngest(src)
    \/ \E order \in UNION {Orders(n) : n \in 0..Cardinality(Sources \X ExternalIds)} :
          RunTransform(order)
    \/ RunBuild
    \/ \E res \in toPublish, sent \in SUBSET RouteDests : RunPublish(res, sent)
    \/ RunExport
    \/ RunCleanup

SpecRun == RunInit /\ [][RunNext]_vars

\* the first run uploaded every artifact it built
Run1PublishedAll ==
    \A i \in 1..Len(afterRun1.all_build_results) :
        \E k \in 1..Len(afterRun1.published_artifacts) :
            /\ afterRun1.published_artifacts[k].route_name
                  = afterRun1.all_build_results[i].unique_id
            /\ afterRun1.published_artifacts[k].artifact_hash
                  = afterRun1.all_build_results[i].artifact_hash

\* C4: a second run whose connectors yield the items of the first run
\* adds no seen_files row, no record and no published_artifacts row,
\* leaves the artifact and the outputs/ files byte-identical, and changes
\* source_state only in the statistics of the last run.
C4_SecondRunIdempotent ==
    (rpc = "idle" /\ runNo = 2 /\ Run1PublishedAll) =>
        /\ seen_files = afterRun1.seen_files
        /\ records = afterRun1.records
        /\ published_artifacts = afterRun1.published_artifacts
        /\ artifact_files = afterRun1.artifact_files
        /\ output_files = afterRun1.output_files
        /\ outputs = afterRun1.outputs
        /\ \A s \in Sources :
              /\ source_state[s].present = afterRun1.source_state[s].present
              /\ source_state[s].total_files = afterRun1.source_state[s].total_files

\* C23: in every run the cutoff max(seen_files.id) is read before phase 1
\* and the build of the route selects only the records joined to a
\* seen_files row whose id is greater than that cutoff.
C23_BuildAboveCutoff ==
    (rpc = "publish" /\ lastBuild.ran) =>
        build_records(lastBuild.records, lastBuild.seen_files, RouteFormats, RouteSources)
          = get_records_for_build(lastBuild.records, lastBuild.seen_files,
                                  Range(RouteFormats), RouteSources, seen_file_cutoff_id)

\* ==================================================================
\* SpecAtomic: writers that save one file through atomic_write, readers
\* of the final path, and crashes
\* ==================================================================
FileChunks == 2     \* write calls that the bytes of a file take
MaxSaves == 3       \* saves started in one behaviour

\* the i-th part of the bytes d, and a part of zero bytes
Chunk(d, i) == <<d, i>>

ZeroChunk == <<"zero", 0>>

Complete(d) == [i \in 1..FileChunks |-> Chunk(d, i)]

\* the bytes a writer saves: a blob is named by its hash, so every writer
\* of its path saves the same bytes; an output file gets new content
DataOf(kind, w) == IF kind = "raw" THEN "D" ELSE IF w = "w1" THEN "N" ELSE "M"

\* write(2) of one part at a position of the file
WriteAt(content, pos, chunk) ==
    [i \in 1..(IF Len(content) > pos THEN Len(content) ELSE pos) |->
        IF i = pos THEN chunk
        ELSE IF i <= Len(content) THEN content[i] ELSE ZeroChunk]

\* open("wb") of a name of the directory: the file is created when the
\* name is free and truncated when it is not
OpenTruncate(name, ino) ==
    IF name = NoInode
    THEN [inode |-> Len(ino) + 1, inodes |-> Append(ino, <<>>)]
    ELSE [inode |-> name, inodes |-> [ino EXCEPT ![name] = <<>>]]

\* a write that opens the final path itself
OpenFinal(df, dt, ino) ==
    LET o == OpenTruncate(df, ino)
    IN [dirFinal |-> o.inode, dirTmp |-> dt, inodes |-> o.inodes, fd |-> o.inode]

\* atomic_write: tmp_path = <name>.tmp; open(tmp_path, mode)
OpenTmp(df, dt, ino) ==
    LET o == OpenTruncate(dt, ino)
    IN [dirFinal |-> df, dirTmp |-> o.inode, inodes |-> o.inodes, fd |-> o.inode]

SavesStarted == wr["w1"].n + wr["w2"].n

InAtomicWrite(w) == wr[w].pc \in {"write", "rename"}

AtomicInit ==
    /\ DbEmpty /\ IngestIdle /\ PublishIdle /\ StoreIdle /\ UriIdle /\ RunIdle
    /\ TransIdle /\ FaultIdle /\ RouteIdle /\ CliIdle /\ MoreIdle
    /\ pathKind \in {"raw", "output"}
    /\ \/ dirFinal = NoInode /\ inodes = <<>>
       \/ pathKind = "output" /\ dirFinal = 1 /\ inodes = <<Complete("P")>>
    /\ dirTmp = NoInode
    /\ wr = [w \in Workers |-> IdleWriter]
    /\ lastRead = NotRead
    /\ overlap = FALSE
    /\ crashed = FALSE

\* RawStore.save up to "if not target_path.exists()", or the start of
\* save_artifact / save_output, which write in every case
SaveStart(w) ==
    /\ wr[w].pc = "idle"
    /\ SavesStarted < MaxSaves
    /\ wr' = [wr EXCEPT ![w] =
                IF pathKind = "raw" /\ dirFinal # NoInode
                THEN [IdleWriter EXCEPT !.result = "returned", !.n = wr[w].n + 1]
                ELSE [IdleWriter EXCEPT !.pc = "open", !.n = wr[w].n + 1,
                                        !.data = DataOf(pathKind, w)]]
    /\ UNCHANGED <<dirFinal, dirTmp, inodes, lastRead, overlap, crashed, pathKind,
                   nonAtomVars>>

\* atomic_write: open(tmp_path, mode)
OpenTmpFile(w) ==
    /\ wr[w].pc = "open"
    /\ LET o == OpenTmp(dirFinal, dirTmp, inodes)
       IN /\ dirFinal' = o.dirFinal
          /\ dirTmp' = o.dirTmp
          /\ inodes' = o.inodes
          /\ wr' = [wr EXCEPT ![w].pc = "write", ![w].fd = o.fd, ![w].off = 0]
    /\ overlap' = (overlap \/ \E v \in Workers \ {w} : InAtomicWrite(v))
    /\ UNCHANGED <<lastRead, crashed, pathKind, nonAtomVars>>

\* f.write(data), f.flush(): the next part of the bytes reaches the file
WriteChunk(w) ==
    /\ wr[w].pc = "write"
    /\ wr[w].off < FileChunks
    /\ inodes' = [inodes EXCEPT ![wr[w].fd] =
                    WriteAt(inodes[wr[w].fd], wr[w].off + 1,
                            Chunk(wr[w].data, wr[w].off + 1))]
    /\ wr' = [wr EXCEPT ![w].off = wr[w].off + 1]
    /\ UNCHANGED <<dirFinal, dirTmp, lastRead, overlap, crashed, pathKind, nonAtomVars>>

\* os.fsync(f.fileno()) and the end of the with block
SyncClose(w) ==
    /\ wr[w].pc = "write"
    /\ wr[w].off = FileChunks
    /\ wr' = [wr EXCEPT ![w].pc = "rename", ![w].fd = NoInode]
    /\ UNCHANGED <<dirFinal, dirTmp, inodes, lastRead, overlap, crashed, pathKind,
                   nonAtomVars>>

\* tmp_path.rename(path); without a file at tmp_path it raises, the
\* handler finds nothing to unlink and the exception leaves save
RenameTmp(w) ==
    /\ wr[w].pc = "rename"
    /\ IF dirTmp = NoInode
       THEN /\ wr' = [wr EXCEPT ![w].pc = "idle", ![w].result = "raised"]
            /\ UNCHANGED <<dirFinal, dirTmp>>
       ELSE /\ dirFinal' = dirTmp
            /\ dirTmp' = NoInode
            /\ wr' = [wr EXCEPT ![w].pc = "idle", ![w].result = "returned"]
    /\ UNCHANGED <<inodes, lastRead, overlap, crashed, pathKind, nonAtomVars>>

\* the writer dies where it is; what it wrote so far stays
CrashWriter(w) ==
    /\ wr[w].pc \in {"open", "write", "rename"}
    /\ wr' = [wr EXCEPT ![w].pc = "idle", ![w].fd = NoInode, ![w].result = "crashed"]
    /\ crashed' = TRUE
    /\ UNCHANGED <<dirFinal, dirTmp, inodes, lastRead, overlap, pathKind, nonAtomVars>>

\* a reader opens the final path and reads the file: RawStore.get,
\* ArtifactStore.get_artifact
ReadFinal ==
    /\ lastRead' = IF dirFinal = NoInode THEN NoFile ELSE inodes[dirFinal]
    /\ UNCHANGED <<dirFinal, dirTmp, inodes, wr, overlap, crashed, pathKind, nonAtomVars>>

AtomicNext ==
    \/ \E w \in Workers : SaveStart(w)
    \/ \E w \in Workers : OpenTmpFile(w)
    \/ \E w \in Workers : WriteChunk(w)
    \/ \E w \in Workers : SyncClose(w)
    \/ \E w \in Workers : RenameTmp(w)
    \/ \E w \in Workers : CrashWriter(w)
    \/ ReadFinal

SpecAtomic == AtomicInit /\ [][AtomicNext]_vars

CompleteContents == {Complete(d) : d \in {"D", "P", "N", "M"}}

\* C11: while no two writers of the path are in atomic_write at once, a
\* reader of the final path sees no file, the complete previous content or
\* the complete new content, whatever the interleaving and wherever a
\* writer crashed.
C11_ReaderNeverSeesPartial ==
    ~overlap => lastRead \in ({NotRead, NoFile} \cup CompleteContents)

\* C11 witness: a writer crashed and left a partial temporary file, and a
\* reader of the final path still saw the complete previous content
C11_Witness_CrashLeavesFinalIntact ==
    /\ ~overlap
    /\ crashed
    /\ dirTmp # NoInode
    /\ inodes[dirTmp] \notin CompleteContents
    /\ lastRead = Complete("P")

\* C11 witness: after that crash the next writer replaced the content
C11_Witness_NewContentAfterCrash ==
    /\ ~overlap
    /\ crashed
    /\ lastRead = Complete("M")

\* C12: two workers that save identical bytes both return the hash
\* without raising, and afterwards get returns the complete bytes.
C12_ConcurrentSaveReturns ==
    (pathKind = "raw" /\ ~crashed) =>
        /\ \A w \in Workers : wr[w].result # "raised"
        /\ ((\A w \in Workers : wr[w].pc = "idle" /\ wr[w].result = "returned")
              => (dirFinal # NoInode /\ inodes[dirFinal] = Complete("D")))

\* ==================================================================
\* SpecBuild: runs of the orchestrator within one second, with a raw
\* store that may lose blobs between two runs
\* ==================================================================
BuildInit == RunInit

\* between two runs a file of the raw store is lost: the directory is a
\* cache, and transform and build go on without a blob they do not find
LoseBlob(h) ==
    /\ rpc = "idle"
    /\ h \in blobs
    /\ blobs' = blobs \ {h}
    /\ UNCHANGED <<seen_files, source_state, storeVars, nonStoreVars>>

BuildNext ==
    \/ \E h \in {sha256(d) : d \in Datas} : LoseBlob(h)
    \/ StartRun
    \/ \E src \in Sources : RunIngest(src)
    \/ \E order \in UNION {Orders(n) : n \in 0..Cardinality(Sources \X ExternalIds)} :
          RunTransform(order)
    \/ RunBuild
    \/ \E res \in toPublish, sent \in SUBSET RouteDests : RunPublish(res, sent)
    \/ RunExport
    \/ RunCleanup

SpecBuild == BuildInit /\ [][BuildNext]_vars

\* the records of a format that the last build fetched, and its bytes
BuiltRecords(fmt) ==
    SelectSeq(get_records_for_build(lastBuild.records, lastBuild.seen_files,
                                    Range(RouteFormats), RouteSources, NoMin),
              LAMBDA r : r.record_type = fmt)

BuiltBytes(fmt) == handler_build(fmt, BuiltRecords(fmt), lastBuild.blobs, lastBuild.now)

\* the last build had no record of the format, or the format is a bundle
\* whose bytes were 22 long or shorter
EmptyBuild(fmt) ==
    \/ BuiltRecords(fmt) = <<>>
    \/ fmt \in _ZIP_FORMATS /\ ArtSize(BuiltBytes(fmt)) <= 22

RowsOf(pa, unique_id) == SelectSeq(pa, LAMBDA row : row.route_name = unique_id)

\* C13: a format of the route whose build had zero records of its type, or
\* a bundle format whose bytes were 22 long or shorter, gets no build
\* result, no artifact file, no output file, no file under outputs/ and no
\* published_artifacts row from that run.
C13_EmptyBuildLeavesNothing ==
    (lastBuild.ran /\ rpc \in {"publish", "cleanup", "idle"}) =>
        \A i \in 1..Len(RouteFormats) :
            LET fmt == RouteFormats[i]
            IN EmptyBuild(fmt) =>
                /\ \A k \in 1..Len(all_build_results) :
                      all_build_results[k].format # fmt
                /\ {f \in artifact_files : f.format = fmt}
                      = {f \in lastBuild.artifact_files : f.format = fmt}
                /\ {f \in output_files : f.name = RouteName \o "." \o fmt}
                      = {f \in lastBuild.output_files : f.name = RouteName \o "." \o fmt}
                /\ (rpc \in {"cleanup", "idle"}
                      => \A f \in outputs : f.name # RouteName \o "." \o fmt)
                /\ RowsOf(published_artifacts, RouteName \o ":" \o fmt)
                      = RowsOf(lastBuild.published_artifacts, RouteName \o ":" \o fmt)

\* C13 witness: a run found the bundle record without its blob after an
\* earlier run had published the bundle; the run is over and outputs/
\* holds no bundle
C13_Witness_EmptyZipDropped ==
    /\ lastBuild.ran
    /\ rpc = "idle"
    /\ BuiltRecords("ovpn") # <<>>
    /\ BuiltBytes("ovpn") = EmptyZip
    /\ RowsOf(published_artifacts, "r1:ovpn") # <<>>
    /\ outputs # {}

\* C13 witness: a run built the text artifact and had no bundle record
C13_Witness_NoRecordsOfType ==
    /\ lastBuild.ran
    /\ rpc = "idle"
    /\ BuiltRecords("ovpn") = <<>>
    /\ BuiltRecords("npvt") # <<>>
    /\ outputs # {}

\* ==================================================================
\* SpecTransform: a TransformPipeline constructed with a registry, run
\* on what ingestion records, with blobs that get lost and handlers
\* whose parse raises
\* ==================================================================
\* the registries a pipeline is constructed with: the one of the
\* orchestrator, and one without a handler for ovpn
Registries == {RegisteredFormats, RegisteredFormats \ {"ovpn"}}

TransformInit ==
    /\ DbEmpty /\ StoreIdle /\ UriIdle /\ IngestIdle /\ PublishIdle /\ RunIdle /\ AtomIdle
    /\ FaultIdle /\ RouteIdle /\ CliIdle /\ MoreIdle
    /\ registry \in Registries
    /\ raises \in {{}, {"d1"}}

TransformNext ==
    \/ \E src \in Sources, feed \in StoreFeeds : IngestSource(src, feed)
    \/ \E order \in UNION {[1..n -> 1..n] : n \in 1..Cardinality(Sources \X ExternalIds)} :
          ProcessPending(order)
    \/ \E h \in {sha256(d) : d \in Datas} : LoseBlob(h)

SpecTransform == TransformInit /\ [][TransformNext]_vars

\* the case of a pending seen-file in the list of outcomes
OutcomeCase(row, bl) ==
    LET fmt == decide_format(RawGet(row.raw_hash))
        allowed == include_formats(row.source_id)
    IN IF row.raw_hash \notin bl THEN "blob absent"
       ELSE IF fmt \notin allowed /\ "all" \notin allowed THEN "format excluded"
       ELSE IF fmt \notin registry THEN "no handler"
       ELSE IF RawGet(row.raw_hash) \in raises THEN "parse raises"
       ELSE "parsed"

\* the row has the outcome that the list gives its case
HasOutcome(case, before, after) ==
    CASE case = "blob absent" ->
            after.status = "failed" /\ after.error_msg = "Raw data missing"
      [] case = "format excluded" -> after.status = "ignored"
      [] case = "no handler" ->
            /\ after.status = "failed"
            /\ after.error_msg = "No handler for " \o decide_format(RawGet(before.raw_hash))
      [] case = "parse raises" ->
            after.status = "failed" /\ after.error_msg \in {"boom", "Parse error: boom"}
      [] case = "parsed" -> after.status = "processed"

\* C19: a process_pending that finds pending seen-files gives each of
\* them the outcome of its case (blob absent, format excluded, no handler,
\* parse raises, parsed) and inserts one record row per parsed record of
\* the files of the last case, and no other record row.
C19_OneOutcomePerPendingFile ==
    [][(\E i \in 1..Len(seen_files) :
            seen_files[i].status = "pending" /\ seen_files'[i].status # "pending")
       => LET pending == {i \in 1..Len(seen_files) : seen_files[i].status = "pending"}
              parsed == {i \in pending : OutcomeCase(seen_files[i], blobs) = "parsed"}
              new == (Len(records) + 1)..Len(records')
          IN /\ \A i \in pending :
                    HasOutcome(OutcomeCase(seen_files[i], blobs), seen_files[i],
                               seen_files'[i])
             /\ \A d \in Datas :
                    Cardinality({k \in new : records'[k].source_file_hash = sha256(d)})
                      = Cardinality({i \in parsed : seen_files[i].raw_hash = sha256(d)})
                          * Len(ParsedRecords(sha256(d), decide_format(d)))]_vars

\* ==================================================================
\* SpecFault: runs of the orchestrator in which a connector raises or
\* the parse of a file raises
\* ==================================================================
\* what the connectors yield: one bundle posted in both sources; one text
\* per source, the two differing in the remark of their URI; a text and a
\* bundle in s1 and the text in s2
FaultFeeds ==
    {[s \in Sources |-> <<[external_id |-> "m2", data |-> "d2"]>>],
     [s \in Sources |-> IF s = "s1" THEN <<[external_id |-> "m1", data |-> "d1"]>>
                                     ELSE <<[external_id |-> "m1", data |-> "d3"]>>],
     [s \in Sources |-> IF s = "s1" THEN <<[external_id |-> "m1", data |-> "d1"],
                                           [external_id |-> "m2", data |-> "d2"]>>
                                     ELSE <<[external_id |-> "m1", data |-> "d1"]>>]}

FaultInit ==
    /\ DbEmpty /\ IngestIdle /\ PublishIdle /\ StoreIdle /\ UriIdle /\ AtomIdle /\ RouteIdle
    /\ CliIdle /\ MoreIdle
    /\ registry = RegisteredFormats
    /\ raises \in {{}, {"d2"}}
    /\ results = NoResults
    /\ failing \in {{}, {"s2"}}
    /\ rpc = "idle"
    /\ runNo = 0
    /\ feeds \in FaultFeeds
    /\ source_queue = {}
    /\ all_build_results = <<>>
    /\ toPublish = {}
    /\ artifact_files = {}
    /\ output_files = {}
    /\ archive = {}
    /\ outputs = {}
    /\ outputs_dev = NoDevOutputs
    /\ afterRun1 = NoSnapshot
    /\ lastBuild = NoBuild

FaultNext ==
    \/ StartRun
    \/ \E src \in Sources : RunIngest(src)
    \/ \E src \in Sources, k \in 0..MaxFeed : RunIngestFails(src, k)
    \/ \E order \in UNION {Orders(n) : n \in 0..Cardinality(Sources \X ExternalIds)} :
          RunTransform(order)
    \/ RunBuild
    \/ \E res \in toPublish, sent \in SUBSET RouteDests : RunPublish(res, sent)
    \/ RunExport
    \/ RunCleanup

SpecFault == FaultInit /\ [][FaultNext]_vars

\* the run is past its transform phase
Transformed == rpc \in {"build", "publish", "cleanup"} \/ (rpc = "idle" /\ runNo >= 1)

\* the seen-file is one whose parse raises: its format is allowed for its
\* source and its handler raises on its content
ParseFails(row) ==
    LET fmt == decide_format(RawGet(row.raw_hash))
    IN /\ RawGet(row.raw_hash) \in raises
       /\ (fmt \in include_formats(row.source_id) \/ "all" \in include_formats(row.source_id))

\* C15: in a run whose connectors or handlers raise, every failing source
\* is counted as err and every other source as ok with its items recorded,
\* after the transform no file is pending and a file whose parse raised has
\* status failed, and the run goes on to its build phase and to its end.
C15_FaultsStayInsideRun ==
    /\ Transformed =>
          /\ results.err = Cardinality(failing)
          /\ results.ok = Cardinality(Sources \ failing)
          /\ \A src \in Sources \ failing : \A i \in 1..Len(feeds[src]) :
                \E k \in 1..Len(seen_files) :
                    /\ seen_files[k].source_id = src
                    /\ seen_files[k].external_id = feeds[src][i].external_id
          /\ \A k \in 1..Len(seen_files) :
                /\ seen_files[k].status # "pending"
                /\ ParseFails(seen_files[k]) => seen_files[k].status = "failed"
    /\ (rpc \in {"publish", "cleanup"} \/ (rpc = "idle" /\ runNo >= 1)) => lastBuild.ran

\* the seen-file rows of processed text files with the canonical URI
TextFilesOf(unique_hash) ==
    {k \in 1..Len(seen_files) :
        /\ seen_files[k].status = "processed"
        /\ decide_format(RawGet(seen_files[k].raw_hash)) = "npvt"
        /\ ParsedRecords(seen_files[k].raw_hash, "npvt")[1].unique_hash = unique_hash}

\* C17: once the run has transformed and built several text files whose
\* URIs differ only in remark, records holds exactly one npvt row for the
\* canonical URI and the npvt artifact of the route has one line for it.
C17_OneRecordPerCanonicalUri ==
    (rpc \in {"publish", "cleanup"} /\ Cardinality(TextFilesOf("uri1")) >= 2) =>
        /\ Cardinality({k \in 1..Len(records) :
                           /\ records[k].record_type = "npvt"
                           /\ records[k].unique_hash = "uri1"}) = 1
        /\ \A i \in 1..Len(all_build_results) :
              all_build_results[i].format = "npvt"
                  => all_build_results[i].data = "txt[uri1]"

\* ==================================================================
\* SpecRoutes: phase 3 of one run with two routes, whose publish tasks
\* run in the shared pool while the main thread goes on building
\* ==================================================================
\* config.routes: two routes with one destination each; the second has
\* its own name or the name of the first; data is what the build of the
\* route gives for its format npvt
RouteConfigs ==
    {<<[name |-> "r1", destinations |-> {[chat_id |-> "c1", token |-> "t1"]}, data |-> d1],
       [name |-> n2, destinations |-> {[chat_id |-> "c2", token |-> "t1"]}, data |-> d2]>> :
        n2 \in {"r1", "r2"}, d1 \in {"A", "B"}, d2 \in {"A", "B"}}

NoFuture == [pc |-> "none", last_hash |-> NoHash]

\* the run starts at second 1; an earlier run may have published "A" for
\* r1:npvt at second 0
RoutesInit ==
    /\ DbEmpty /\ IngestIdle /\ StoreIdle /\ UriIdle /\ RunIdle
    /\ AtomIdle /\ TransIdle /\ FaultIdle /\ CliIdle /\ MoreIdle
    /\ routes \in RouteConfigs
    /\ futures = [i \in 1..2 |-> NoFuture]
    /\ attempts = <<>>
    /\ published_artifacts \in {<<>>, mark_published(<<>>, "r1:npvt", sha256("A"), 0)}
    /\ clock = 1
    /\ uploads = <<>>
    /\ lastPublish = NoPublish
    /\ pubRuns = 0

\* the build result of route i for its format
RouteResult(i) == BuildResult(routes[i].name, "npvt", sha256(routes[i].data), routes[i].data)

\* the main thread: build_pipeline.run(route), then pub_executor.submit
\* of publish_pipeline.run(res, dests), route after route
SubmitRoute(i) ==
    /\ i \in 1..Len(routes)
    /\ futures[i].pc = "none"
    /\ \A j \in 1..(i - 1) : futures[j].pc # "none"
    /\ futures' = [futures EXCEPT ![i].pc = "queued"]
    /\ UNCHANGED <<routes, attempts, pubVars, nonRouteVars>>

\* a pool thread starts PublishPipeline.run: it reads the last published
\* hash of unique_id and returns when it is the new hash
TaskCheck(i) ==
    /\ i \in 1..Len(routes)
    /\ futures[i].pc = "queued"
    /\ \E last_hash \in get_last_published_hash(published_artifacts, RouteResult(i).unique_id) :
          futures' = [futures EXCEPT ![i] =
                        [pc |-> IF last_hash = RouteResult(i).artifact_hash
                                THEN "done" ELSE "sending",
                         last_hash |-> last_hash]]
    /\ UNCHANGED <<routes, attempts, pubVars, nonRouteVars>>

\* the loop over the destinations of the task and mark_published; sent
\* is the set of destinations whose upload did not raise
TaskSend(i, sent) ==
    /\ i \in 1..Len(routes)
    /\ futures[i].pc = "sending"
    /\ LET res == RouteResult(i)
           withToken == {d \in routes[i].destinations : TokenOf(d, NoToken) # NoToken}
       IN /\ sent \subseteq withToken
          /\ attempts' = attempts \o
                SeqOfSet({[route |-> i, chat_id |-> d.chat_id] : d \in withToken})
          /\ uploads' = uploads \o
                SeqOfSet({[unique_id |-> res.unique_id, artifact_hash |-> res.artifact_hash,
                           chat_id |-> d.chat_id] : d \in sent})
          /\ published_artifacts' =
                IF sent # {}
                THEN mark_published(published_artifacts, res.unique_id, res.artifact_hash,
                                    clock)
                ELSE published_artifacts
    /\ futures' = [futures EXCEPT ![i].pc = "done"]
    /\ UNCHANGED <<routes, clock, lastPublish, pubRuns, nonRouteVars>>

RoutesNext ==
    \/ \E i \in 1..2 : SubmitRoute(i)
    \/ \E i \in 1..2 : TaskCheck(i)
    \/ \E i \in 1..2, sent \in SUBSET {[chat_id |-> c, token |-> "t1"] : c \in {"c1", "c2"}} :
          TaskSend(i, sent)

SpecRoutes == RoutesInit /\ [][RoutesNext]_vars

\* the hash published for unique_id before the run started
HashBeforeRun(unique_id) ==
    LET before == SelectSeq(published_artifacts, LAMBDA row : row.published_at < 1)
    IN get_last_published_hash(before, unique_id)

AttemptsOf(i, chat_id) ==
    Cardinality({k \in 1..Len(attempts) :
                    attempts[k].route = i /\ attempts[k].chat_id = chat_id})

\* C18: when every publish task of the run is over, each artifact whose
\* hash differed from the last published hash of its unique_id was
\* attempted exactly once at every destination of its route, and when an
\* upload of it succeeded get_last_published_hash(unique_id) is its hash -
\* also for two routes of one name.
C18_OncePerDestination ==
    (\A i \in 1..Len(futures) : futures[i].pc = "done") =>
        \A i \in 1..Len(routes) :
            HashBeforeRun(RouteResult(i).unique_id) # {RouteResult(i).artifact_hash} =>
                /\ \A d \in routes[i].destinations : AttemptsOf(i, d.chat_id) = 1
                /\ (\E k \in 1..Len(uploads) :
                        /\ uploads[k].unique_id = RouteResult(i).unique_id
                        /\ uploads[k].artifact_hash = RouteResult(i).artifact_hash
                        /\ uploads[k].chat_id \in {d.chat_id : d \in routes[i].destinations})
                    => get_last_published_hash(published_artifacts, RouteResult(i).unique_id)
                         = {RouteResult(i).artifact_hash}

\* ==================================================================
\* SpecCli: processes that run the run command on one data directory,
\* through _cmd_run of cli/main.py or run_command of cli/commands/run.py
\* ==================================================================
EntryPoints == {"_cmd_run", "run_command"}

\* the configuration file: valid; loads but validate_config raises (a
\* duplicate source id, a route naming an unknown source); load_config
\* raises; the file does not exist
ConfigKinds == {"valid", "invalid", "unloadable", "missing"}

CliInit ==
    /\ DbEmpty /\ IngestIdle /\ PublishIdle /\ StoreIdle /\ UriIdle /\ RunIdle
    /\ AtomIdle /\ TransIdle /\ FaultIdle /\ RouteIdle
    /\ CliIdle /\ MoreIdle

\* the process ends with the code
Exit(p, code) == [inst EXCEPT ![p].pc = "exited", ![p].exit_code = code]

\* the command starts. run_command returns when the file does not exist
\* (the process ends with code 0); _cmd_run goes to load_config
StartCommand(p, entry, config) ==
    /\ inst[p].pc = "idle"
    /\ LET started == [inst EXCEPT ![p].entry = entry, ![p].config = config, ![p].pc = "load"]
       IN inst' = IF entry = "run_command" /\ config = "missing"
                  THEN [started EXCEPT ![p].pc = "exited", ![p].exit_code = 0]
                  ELSE started
    /\ UNCHANGED <<lockHolder, nonCliVars>>

\* load_config, and validate_config in run_command; an exception ends the
\* process with code 1 (sys.exit(1) in _cmd_run, the re-raise in run_command)
LoadConfig(p) ==
    /\ inst[p].pc = "load"
    /\ inst' =
          IF inst[p].config \in {"unloadable", "missing"} THEN Exit(p, 1)
          ELSE IF inst[p].entry = "run_command"
          THEN IF inst[p].config = "invalid" THEN Exit(p, 1)
               ELSE [inst EXCEPT ![p].pc = "lock"]
          ELSE [inst EXCEPT ![p].pc = "start"]
    /\ UNCHANGED <<lockHolder, nonCliVars>>

\* acquire_lock of run_command: lockf(LOCK_EX | LOCK_NB); when another
\* process holds the lock, "Another instance is running" and sys.exit(0)
AcquireLock(p) ==
    /\ inst[p].pc = "lock"
    /\ IF lockHolder = NoInstance
       THEN /\ lockHolder' = p
            /\ inst' = [inst EXCEPT ![p].pc = "start"]
       ELSE /\ inst' = [Exit(p, 0) EXCEPT ![p].found_locked = TRUE]
            /\ UNCHANGED lockHolder
    /\ UNCHANGED nonCliVars

\* Orchestrator(config).run() begins; _cmd_run gets here without a lock
OrchestratorStart(p) ==
    /\ inst[p].pc = "start"
    /\ inst' = [inst EXCEPT ![p].pc = "running", ![p].ran = TRUE,
                             ![p].found_locked = lockHolder \notin {NoInstance, p}]
    /\ UNCHANGED <<lockHolder, nonCliVars>>

\* Orchestrator.run returns, with or without failed routes; run_command
\* leaves the with-block, which releases the lock; the process ends
OrchestratorDone(p, failed_routes) ==
    /\ inst[p].pc = "running"
    /\ inst' = [Exit(p, 0) EXCEPT ![p].completed = TRUE]
    /\ lockHolder' = IF lockHolder = p THEN NoInstance ELSE lockHolder
    /\ UNCHANGED nonCliVars

CliNext ==
    \/ \E p \in Instances, entry \in EntryPoints, config \in ConfigKinds :
          StartCommand(p, entry, config)
    \/ \E p \in Instances : LoadConfig(p)
    \/ \E p \in Instances : AcquireLock(p)
    \/ \E p \in Instances : OrchestratorStart(p)
    \/ \E p \in Instances, failed_routes \in BOOLEAN : OrchestratorDone(p, failed_routes)

SpecCli == CliInit /\ [][CliNext]_vars

\* C16: a process that ran the run command and ended has code 0 when the
\* run completed, a non-zero code when its configuration was not valid,
\* and a non-zero code without having run the orchestrator when another
\* process held the lock.
C16_ExitCodes ==
    \A p \in Instances :
        /\ inst[p].pc = "exited" =>
              /\ inst[p].completed => inst[p].exit_code = 0
              /\ inst[p].config # "valid" => inst[p].exit_code # 0
              /\ inst[p].found_locked => inst[p].exit_code # 0
        /\ inst[p].found_locked => ~inst[p].ran

\* ==================================================================
\* SpecRepo: the operations of the StateRepo and the flush of
\* process_pending while a database write or read may fail
\* (DBConnection.connect or execute raises, e.g. "database is locked")
\* ==================================================================
WriteOps ==
    {"record_file", "add_record", "add_records_batch", "update_file_status",
     "update_file_status_batch", "mark_published", "update_source_state"}

ReadOps ==
    {"get_source_state", "has_seen_file", "get_pending_files", "get_records_for_build",
     "is_artifact_published", "get_processed_hashes", "get_last_published_hash"}

\* the except clause of each operation: update_source_state logs and
\* re-raises; every other write only logs, and returns None; a read logs
\* and returns its default
on_failure(op) ==
    IF op = "update_source_state" THEN [outcome |-> "raised", value |-> "DB Error"]
    ELSE IF op \in WriteOps THEN [outcome |-> "returned", value |-> "None"]
    ELSE IF op \in {"get_source_state", "get_last_published_hash"}
    THEN [outcome |-> "returned", value |-> "None"]
    ELSE IF op \in {"has_seen_file", "is_artifact_published"}
    THEN [outcome |-> "returned", value |-> "False"]
    ELSE [outcome |-> "returned", value |-> "[]"]

Returned(op, value) == [op |-> op, failed |-> FALSE, outcome |-> "returned", value |-> value]

Failed(op) ==
    [op |-> op, failed |-> TRUE, outcome |-> on_failure(op).outcome,
     value |-> on_failure(op).value]

\* SELECT 1 FROM published_artifacts WHERE route_name = ? AND artifact_hash = ?
is_artifact_published(pa, route_name, artifact_hash) ==
    \E i \in 1..Len(pa) : pa[i].route_name = route_name /\ pa[i].artifact_hash = artifact_hash

\* SELECT 1 FROM seen_files WHERE source_id = ? AND external_id = ?
has_seen_file(sf, source_id, external_id) ==
    \E i \in 1..Len(sf) : sf[i].source_id = source_id /\ sf[i].external_id = external_id

\* TransformPipeline._flush_batch: add_records_batch, then
\* update_file_status_batch; fails is the write the database refuses. A
\* write that fails leaves its table as it was, and a write that raises
\* would end the flush
_flush_batch(sf, rcs, batch_results, fails) ==
    LET all_record_rows ==
            Flatten([i \in 1..Len(batch_results) |-> batch_results[i].record_rows])
        recordsFail == fails = "add_records_batch" /\ all_record_rows # <<>>
        aborted == recordsFail /\ on_failure("add_records_batch").outcome = "raised"
        statusFail == fails = "update_file_status_batch"
    IN [records |-> IF recordsFail THEN rcs ELSE add_records_batch(rcs, all_record_rows),
        seen_files |-> IF aborted \/ statusFail THEN sf
                       ELSE update_file_status_batch(sf, batch_results),
        call |-> IF recordsFail THEN Failed("add_records_batch")
                 ELSE IF statusFail THEN Failed("update_file_status_batch")
                 ELSE Returned("update_file_status_batch", "None")]

RepoInit ==
    /\ DbEmpty /\ StoreIdle /\ UriIdle /\ IngestIdle /\ PublishIdle /\ RunIdle
    /\ AtomIdle /\ TransIdle /\ FaultIdle /\ RouteIdle /\ CliIdle /\ MoreIdle

\* TransformPipeline.process_pending on one batch while one of the two
\* writes of the flush may fail
ProcessPendingDb(order, fails) ==
    LET pending_files == get_pending_files(seen_files)
        n == Len(pending_files)
        batch_results == [i \in 1..n |->
            _process_single_file(pending_files[order[i]], blobs, registry, raises)]
        r == _flush_batch(seen_files, records, batch_results, fails)
    IN /\ storeOps < MaxStoreOps
       /\ storeOps' = storeOps + 1
       /\ n > 0
       /\ n <= TRANSFORM_BATCH_SIZE
       /\ order \in Orders(n)
       /\ fails = "add_records_batch" => r.call.failed
       /\ records' = r.records
       /\ seen_files' = r.seen_files
       /\ call' = r.call
       /\ handled' = [id \in FileIds |->
                        IF \E i \in 1..n : pending_files[i].id = id
                        THEN handled[id] + 1 ELSE handled[id]]
       /\ UNCHANGED <<source_state, blobs, lastQuery, lastPrune, pubVars, nonRepoVars>>

\* one of the single-row writes is called
RepoWrite(op, fails) ==
    /\ storeOps < MaxStoreOps
    /\ storeOps' = storeOps + 1
    /\ call' = IF fails THEN Failed(op) ELSE Returned(op, "None")
    /\ seen_files' =
          IF fails THEN seen_files
          ELSE IF op = "record_file"
          THEN InsertOrIgnore(seen_files,
                  [id |-> 0, source_id |-> "s1", external_id |-> "m1",
                   raw_hash |-> sha256("d1"), status |-> "pending",
                   error_msg |-> NoMsg, tx |-> Committed])
          ELSE IF op = "update_file_status"
          THEN update_file_status_batch(seen_files,
                  <<[status |-> "failed", error_msg |-> "stat", raw_hash |-> sha256("d1")]>>)
          ELSE seen_files
    /\ records' =
          IF ~fails /\ op = "add_record"
          THEN add_records_batch(records,
                  <<[source_file_hash |-> sha256("d1"), record_type |-> "npvt",
                     unique_hash |-> "uri1"]>>)
          ELSE records
    /\ published_artifacts' =
          IF ~fails /\ op = "mark_published"
          THEN mark_published(published_artifacts, RouteName, sha256("a1"), clock)
          ELSE published_artifacts
    /\ source_state' =
          IF ~fails /\ op = "update_source_state"
          THEN WithStats(source_state, "s1", 0, 0)
          ELSE source_state
    /\ UNCHANGED <<blobs, lastQuery, lastPrune, handled, clock, uploads, lastPublish,
                   pubRuns, nonRepoVars>>

\* one of the reads is called
RepoRead(op, fails) ==
    /\ call' =
          IF fails THEN Failed(op)
          ELSE Returned(op,
                CASE op = "get_source_state" ->
                        IF source_state["s1"].present THEN source_state["s1"] ELSE "None"
                  [] op = "has_seen_file" -> has_seen_file(seen_files, "s1", "m1")
                  [] op = "get_pending_files" -> get_pending_files(seen_files)
                  [] op = "get_records_for_build" ->
                        get_records_for_build(records, seen_files, {"npvt", "ovpn"},
                                              Sources, NoMin)
                  [] op = "is_artifact_published" ->
                        is_artifact_published(published_artifacts, RouteName, sha256("a1"))
                  [] op = "get_processed_hashes" -> get_processed_hashes(seen_files, records)
                  [] op = "get_last_published_hash" ->
                        get_last_published_hash(published_artifacts, RouteName))
    /\ UNCHANGED <<dbVars, storeVars, pubVars, handled, nonRepoVars>>

SingleWrites ==
    {"record_file", "add_record", "update_file_status", "mark_published",
     "update_source_state"}

\* what the connectors yield in SpecRepo
RepoFeeds ==
    {<<[external_id |-> "m1", data |-> "d1"]>>,
     <<[external_id |-> "m1", data |-> "d1"], [external_id |-> "m2", data |-> "d2"]>>}

RepoNext ==
    \/ \E src \in Sources, feed \in RepoFeeds : IngestSource(src, feed)
    \/ \E order \in UNION {[1..n -> 1..n] : n \in 1..Cardinality(Sources \X ExternalIds)},
          fails \in {"none", "add_records_batch", "update_file_status_batch"} :
          ProcessPendingDb(order, fails)
    \/ \E op \in SingleWrites, fails \in BOOLEAN : RepoWrite(op, fails)
    \/ \E op \in ReadOps, fails \in BOOLEAN : RepoRead(op, fails)

SpecRepo == RepoInit /\ [][RepoNext]_vars

\* C21: across any sequence of runs a seen-file is handled by
\* process_pending at most once: once handled it is no longer pending, and
\* no later call parses it and inserts its records again.
C21_ProcessedAtMostOnce ==
    \A i \in 1..Len(seen_files) :
        /\ handled[seen_files[i].id] <= 1
        /\ handled[seen_files[i].id] >= 1 => seen_files[i].status # "pending"

\* C22: a write operation of the StateRepo whose database write fails
\* raises to its caller, and a read operation whose query fails returns
\* its safe default.
C22_WriteFailuresRaise ==
    call.failed =>
        IF call.op \in WriteOps
        THEN call.outcome = "raised"
        ELSE call.outcome = "returned" /\ call.value \in {"None", "False", "[]"}

\* ==================================================================
\* SpecPool: phase 1 of Orchestrator.run: the worker threads that drain
\* the source queue, the channel dedup, the connectors and their cleanup,
\* and the join loop of the orchestrator with and without a timeout
\* ==================================================================
MaxPoolWorkers == 2     \* largest max_workers
MaxItems == 1           \* items a connector yields
MaxElapsed == 2         \* seconds that pass in one behaviour

\* config.sources of the configurations
PoolConfigs == {<<"u1", "u2", "b1">>, <<"x1", "u1">>}

\* src_conf.type and whether the credentials of the source are set: b1 is
\* a bot source, x1 a user source without api_id
SourceConf(id) ==
    [type |-> IF id = "b1" THEN "telegram" ELSE "telegram_user", creds |-> id # "x1"]

\* timeout of Orchestrator.run: None or a number of seconds
Timeouts == {NoTimeout, 1}

ChannelIds == {"ch1", "ch2"}

\* connector.resolve_channel_id(): an id, None, or an exception
ResolveOutcomes == ChannelIds \cup {NoChannel, "raise"}

\* effective_workers = min(self.max_workers, total_sources)
effective_workers == IF max_workers < Len(sources) THEN max_workers ELSE Len(sources)

NoDeadline == -1    \* deadline = None

\* the deadline IngestionPipeline.run gets from _ingest_one_source: the
\* call passes source_id, connector and source_type, so the parameter keeps
\* its default
IngestDeadline == NoDeadline

\* "if deadline and time.time() > deadline" in the loop over list_new
DeadlineExceeded == IngestDeadline # NoDeadline /\ elapsed > IngestDeadline

PoolInit ==
    /\ DbEmpty /\ StoreIdle /\ UriIdle /\ IngestIdle /\ PublishIdle /\ RunIdle
    /\ AtomIdle /\ TransIdle /\ FaultIdle /\ RouteIdle /\ CliIdle /\ CutIdle /\ RepoIdle
    /\ PhaseIdle /\ LastIdle
    /\ sources \in PoolConfigs
    /\ max_workers \in 0..MaxPoolWorkers
    /\ timeout \in Timeouts
    /\ elapsed = 0
    /\ opc = "start"
    /\ joined = 0
    /\ queue = <<>>
    /\ pw = [w \in 1..MaxPoolWorkers |-> IdlePoolWorker]
    /\ seen_channels = {}
    /\ src_log = [s \in SourceIds |-> NoLog]

\* a second passes while the orchestrator waits or after it went on; the
\* clock is read only in a run with a timeout, and only to tell whether
\* the deadline has passed
PoolTick ==
    /\ opc \in {"join", "interrupted"}
    /\ timeout # NoTimeout
    /\ elapsed <= timeout
    /\ elapsed < MaxElapsed
    /\ elapsed' = elapsed + 1
    /\ UNCHANGED <<sources, max_workers, timeout, opc, joined, queue, pw, seen_channels,
                   src_log, results, nonPoolVars>>

\* Orchestrator.run: results is initialised, every source is put on the
\* queue and effective_workers daemon threads are started
StartPhase1 ==
    /\ opc = "start"
    /\ results' = NoResults
    /\ queue' = sources
    /\ pw' = [w \in 1..MaxPoolWorkers |->
                IF w <= effective_workers THEN [IdlePoolWorker EXCEPT !.pc = "idle"]
                ELSE IdlePoolWorker]
    /\ opc' = "join"
    /\ UNCHANGED <<sources, max_workers, timeout, elapsed, joined, seen_channels, src_log,
                   nonPoolVars>>

\* _worker: source_queue.get_nowait(); the thread returns when the queue
\* is empty. _ingest_one_source then returns False for a source without
\* credentials or of an unsupported type, hands a bot source to the
\* ingestion pipeline, and constructs the connector of a user source
WorkerTake(w) ==
    /\ pw[w].pc = "idle"
    /\ IF queue = <<>>
       THEN /\ pw' = [pw EXCEPT ![w].pc = "dead"]
            /\ UNCHANGED <<queue, src_log>>
       ELSE LET src == Head(queue)
                conf == SourceConf(src)
            IN /\ queue' = Tail(queue)
               /\ IF ~conf.creds
                  THEN /\ pw' = [pw EXCEPT ![w] = [pc |-> "count", src |-> src,
                                                   channel_id |-> NoChannel,
                                                   items |-> 0, success |-> FALSE]]
                       /\ src_log' = [src_log EXCEPT ![src].taken = @ + 1]
                  ELSE IF conf.type = "telegram"
                  THEN /\ pw' = [pw EXCEPT ![w] = [pc |-> "ingest", src |-> src,
                                                   channel_id |-> NoChannel,
                                                   items |-> 0, success |-> FALSE]]
                       /\ src_log' = [src_log EXCEPT ![src].taken = @ + 1,
                                                     ![src].ingested = @ + 1]
                  ELSE /\ pw' = [pw EXCEPT ![w] = [pc |-> "resolve", src |-> src,
                                                   channel_id |-> NoChannel,
                                                   items |-> 0, success |-> FALSE]]
                       /\ src_log' = [src_log EXCEPT ![src].taken = @ + 1,
                                                     ![src].constructed = TRUE]
    /\ UNCHANGED <<sources, max_workers, timeout, elapsed, opc, joined, seen_channels,
                   results, nonPoolVars>>

\* user_conn.resolve_channel_id(). An exception goes to the outer except
\* clause, which returns False without calling cleanup; the connector is
\* then cleaned only if its finaliser (__del__) runs when the function
\* returns, which it does unless something still refers to the frame.
\* With None the source is handed to the ingestion pipeline
WorkerResolve(w, outcome, finalised) ==
    /\ pw[w].pc = "resolve"
    /\ outcome # "raise" => ~finalised
    /\ LET src == pw[w].src
       IN IF outcome = "raise"
          THEN /\ pw' = [pw EXCEPT ![w].pc = "count", ![w].success = FALSE]
               /\ src_log' = [src_log EXCEPT ![src].cleaned = finalised]
          ELSE IF outcome = NoChannel
          THEN /\ pw' = [pw EXCEPT ![w].pc = "ingest"]
               /\ src_log' = [src_log EXCEPT ![src].ingested = @ + 1]
          ELSE /\ pw' = [pw EXCEPT ![w].pc = "dedup", ![w].channel_id = outcome]
               /\ src_log' = [src_log EXCEPT ![src].resolved = outcome]
    /\ UNCHANGED <<sources, max_workers, timeout, elapsed, opc, joined, queue,
                   seen_channels, results, nonPoolVars>>

\* the block under _seen_lock without the add
WorkerDedupNoAdd(w) ==
    /\ pw[w].pc = "dedup"
    /\ LET src == pw[w].src
       IN IF pw[w].channel_id \in seen_channels
          THEN /\ pw' = [pw EXCEPT ![w].pc = "count", ![w].success = TRUE]
               /\ src_log' = [src_log EXCEPT ![src].cleaned = TRUE]
               /\ UNCHANGED seen_channels
          ELSE /\ pw' = [pw EXCEPT ![w].pc = "ingest"]
               /\ src_log' = [src_log EXCEPT ![src].ingested = @ + 1]
               /\ UNCHANGED seen_channels
    /\ UNCHANGED <<sources, max_workers, timeout, elapsed, opc, joined, queue, results,
                   nonPoolVars>>

\* the block under _seen_lock, one step: a channel id already in
\* _seen_channels ends the source as a duplicate (cleanup, return True);
\* otherwise the id is added and the source is handed to the pipeline
WorkerDedup(w) ==
    /\ pw[w].pc = "dedup"
    /\ LET src == pw[w].src
       IN IF pw[w].channel_id \in seen_channels
          THEN /\ pw' = [pw EXCEPT ![w].pc = "count", ![w].success = TRUE]
               /\ src_log' = [src_log EXCEPT ![src].cleaned = TRUE]
               /\ UNCHANGED seen_channels
          ELSE /\ pw' = [pw EXCEPT ![w].pc = "ingest"]
               /\ src_log' = [src_log EXCEPT ![src].ingested = @ + 1]
               /\ seen_channels' = seen_channels \cup {pw[w].channel_id}
    /\ UNCHANGED <<sources, max_workers, timeout, elapsed, opc, joined, queue, results,
                   nonPoolVars>>

\* IngestionPipeline.run: one turn of the loop over connector.list_new
WorkerItem(w) ==
    /\ pw[w].pc = "ingest"
    /\ pw[w].items < MaxItems
    /\ ~DeadlineExceeded
    /\ pw' = [pw EXCEPT ![w].items = @ + 1]
    /\ UNCHANGED <<sources, max_workers, timeout, elapsed, opc, joined, queue, src_log,
                   seen_channels, results, nonPoolVars>>

\* IngestionPipeline.run returns (ok) or raises; for a user source the
\* finally clause calls cleanup
WorkerIngestEnd(w, ok) ==
    /\ pw[w].pc = "ingest"
    /\ pw' = [pw EXCEPT ![w].pc = "count", ![w].success = ok]
    /\ src_log' = [src_log EXCEPT ![pw[w].src].cleaned =
                      IF SourceConf(pw[w].src).type = "telegram_user" THEN TRUE ELSE @]
    /\ UNCHANGED <<sources, max_workers, timeout, elapsed, opc, joined, queue,
                   seen_channels, results, nonPoolVars>>

\* _worker: under the lock results["ok"] or results["err"] is incremented,
\* then task_done() and the next turn of the loop
WorkerCount(w) ==
    /\ pw[w].pc = "count"
    /\ results' = IF pw[w].success THEN [results EXCEPT !.ok = @ + 1]
                  ELSE [results EXCEPT !.err = @ + 1]
    /\ src_log' = [src_log EXCEPT ![pw[w].src].counted =
                      IF pw[w].success THEN "ok" ELSE "err"]
    /\ pw' = [pw EXCEPT ![w] = [IdlePoolWorker EXCEPT !.pc = "idle"]]
    /\ UNCHANGED <<sources, max_workers, timeout, elapsed, opc, joined, queue,
                   seen_channels, nonPoolVars>>

\* the join loop passes a thread that has returned
JoinThread ==
    /\ opc = "join"
    /\ joined < effective_workers
    /\ pw[joined + 1].pc = "dead"
    /\ joined' = joined + 1
    /\ UNCHANGED <<sources, max_workers, timeout, elapsed, opc, queue, pw, seen_channels,
                   src_log, results, nonPoolVars>>

\* the join loop with a timeout: the thread is alive and no time remains,
\* TimeoutError ends phase 1 while the daemon threads go on
JoinTimeout ==
    /\ opc = "join"
    /\ joined < effective_workers
    /\ pw[joined + 1].pc # "dead"
    /\ timeout # NoTimeout
    /\ timeout - elapsed <= 0
    /\ opc' = "interrupted"
    /\ UNCHANGED <<sources, max_workers, timeout, elapsed, joined, queue, pw,
                   seen_channels, src_log, results, nonPoolVars>>

\* every thread is joined: "Phase 1 done", then _raise_if_timed_out
Phase1End ==
    /\ opc = "join"
    /\ joined = effective_workers
    /\ opc' = IF timeout # NoTimeout /\ elapsed > timeout THEN "interrupted" ELSE "done"
    /\ UNCHANGED <<sources, max_workers, timeout, elapsed, joined, queue, pw,
                   seen_channels, src_log, results, nonPoolVars>>

PoolNext ==
    \/ PoolTick
    \/ StartPhase1
    \/ \E w \in 1..MaxPoolWorkers : WorkerTake(w)
    \/ \E w \in 1..MaxPoolWorkers, outcome \in ResolveOutcomes, finalised \in BOOLEAN :
          WorkerResolve(w, outcome, finalised)
    \/ \E w \in 1..MaxPoolWorkers : WorkerDedup(w)
    \/ \E w \in 1..MaxPoolWorkers : WorkerItem(w)
    \/ \E w \in 1..MaxPoolWorkers, ok \in BOOLEAN : WorkerIngestEnd(w, ok)
    \/ \E w \in 1..MaxPoolWorkers : WorkerCount(w)
    \/ JoinThread
    \/ JoinTimeout
    \/ Phase1End

SpecPool == PoolInit /\ [][PoolNext]_vars

\* C25: once the deadline of a run with a timeout has passed, no worker
\* consumes a further item from its connector and none takes a further
\* source from the queue.
C25_DeadlineStopsIngestion ==
    [][(timeout # NoTimeout /\ elapsed > timeout) =>
          /\ queue' = queue
          /\ \A w \in 1..MaxPoolWorkers : pw'[w].items <= pw[w].items]_vars

\* the sources that resolved to the channel
ResolvedTo(c) == {s \in SourceIds : src_log[s].resolved = c}

\* C28: under every interleaving of the workers at most one of the sources
\* that resolve to a channel id is handed to the ingestion pipeline, and
\* every other one is counted ok without being ingested.
C28_OneSourcePerChannel ==
    \A c \in ChannelIds :
        /\ Cardinality({s \in ResolvedTo(c) : src_log[s].ingested >= 1}) <= 1
        /\ \A s \in ResolvedTo(c) : src_log[s].ingested <= 1
        /\ \A s \in ResolvedTo(c) :
              (src_log[s].counted # "" /\ src_log[s].ingested = 0)
                 => src_log[s].counted = "ok"

\* C28 witness: two sources resolved to one channel and both are done:
\* one was ingested, the other was skipped and counted ok
C28_Witness_DuplicateSkipped ==
    \E c \in ChannelIds : \E a, b \in ResolvedTo(c) :
        /\ a # b
        /\ src_log[a].ingested = 1 /\ src_log[a].counted # ""
        /\ src_log[b].ingested = 0 /\ src_log[b].counted = "ok"

\* C29: when a worker is done with a user source whose connector was
\* constructed, cleanup() of that connector has been invoked, on every
\* path: ingestion succeeded or failed, duplicate channel, failure of
\* resolve_channel_id.
C29_CleanupOnEveryPath ==
    \A s \in SourceIds :
        (src_log[s].constructed /\ src_log[s].counted # "") => src_log[s].cleaned

\* what C30 says of phase 1 of a run without timeout
EachSourceOnce ==
    /\ \A s \in SourceIds : src_log[s].taken <= 1 /\ src_log[s].ingested <= 1
    /\ opc = "done" =>
          /\ \A i \in 1..Len(sources) : src_log[sources[i]].taken = 1
          /\ results.ok + results.err = Len(sources)

\* C30 as stated: without timeout, under every interleaving of the
\* min(max_workers, #sources) workers, each configured source is taken
\* from the queue by exactly one worker and handed to ingestion at most
\* once, and when the phase ends ok + err is the number of sources.
C30_EachSourceOnce == timeout = NoTimeout => EachSourceOnce

\* the same for a pool of at least one worker
EachSourceOnceWithWorkers ==
    (timeout = NoTimeout /\ max_workers >= 1) => EachSourceOnce

\* ==================================================================
\* SpecPhases: the control flow of Orchestrator.run after the workers:
\* the timeout checks, the exceptions each phase catches, the executor
\* of the publish tasks, export and cleanup
\* ==================================================================

\* the publish tasks that were submitted and have not ended
Unfinished == {i \in 1..MaxPhaseRoutes : orch.tasks[i] \in {"queued", "running"}}

Running == {i \in 1..MaxPhaseRoutes : orch.tasks[i] = "running"}

\* _raise_if_timed_out: elapsed > timeout
TimedOut == timeout # NoTimeout /\ elapsed > timeout

PhaseInit ==
    /\ DbEmpty /\ StoreIdle /\ UriIdle /\ IngestIdle /\ PublishIdle /\ RunIdle
    /\ AtomIdle /\ TransIdle /\ FaultIdle /\ RouteIdle /\ CliIdle /\ CutIdle /\ RepoIdle
    /\ PhaseIdle /\ LastIdle
    /\ sources = <<>> /\ joined = 0 /\ queue = <<>> /\ pw = <<>> /\ seen_channels = {}
    /\ src_log = [s \in SourceIds |-> NoLog]
    /\ max_workers \in 0..MaxPoolWorkers
    /\ timeout \in Timeouts
    /\ elapsed = 0
    /\ opc = "phase1"

\* a second passes; the clock is read only in a run with a timeout, and
\* only to tell whether the deadline has passed
PhaseTick ==
    /\ opc # "complete"
    /\ timeout # NoTimeout
    /\ elapsed <= timeout
    /\ elapsed' = elapsed + 1
    /\ UNCHANGED <<max_workers, timeout, opc, orch, nonPhaseVars>>

\* phase 1 as the later phases see it: the workers were joined, or the
\* join loop or _raise_if_timed_out raised TimeoutError, which the except
\* clause of the phase logs; the failures of sources are counted by the
\* workers and do not leave them
Phase1(interrupted) ==
    /\ opc = "phase1"
    /\ interrupted => (timeout # NoTimeout /\ timeout - elapsed <= 0)
    /\ (~interrupted) => ~TimedOut
    /\ orch' = [orch EXCEPT !.interrupted = IF interrupted THEN @ \cup {"phase1"} ELSE @]
    /\ opc' = "phase2"
    /\ UNCHANGED <<max_workers, timeout, elapsed, nonPhaseVars>>

\* phase 2: skipped when the run is timed out already; otherwise
\* process_pending, whose exception is logged; TimeoutError of either
\* check is logged by the except clause of the phase
Phase2(fails) ==
    /\ opc = "phase2"
    /\ TimedOut => ~fails
    /\ orch' = [orch EXCEPT !.interrupted = IF TimedOut THEN @ \cup {"phase2"} ELSE @]
    /\ opc' = "phase3"
    /\ UNCHANGED <<max_workers, timeout, elapsed, nonPhaseVars>>

\* the fatal error of phase 3 leaving run
OpenExecutorFatalEscapes ==
    /\ opc = "phase3"
    /\ IF max_workers <= 0
       THEN /\ opc' = "complete"
            /\ orch' = [orch EXCEPT !.phase3_ended = TRUE]
       ELSE /\ opc' = "routes"
            /\ orch' = [orch EXCEPT !.route = 1]
    /\ UNCHANGED <<max_workers, timeout, elapsed, nonPhaseVars>>

\* phase 3: ThreadPoolExecutor(max_workers=self.max_workers) raises
\* ValueError for max_workers <= 0, which "except Exception" around the
\* phase logs as fatal error; otherwise the loop over the routes starts
OpenExecutor ==
    /\ opc = "phase3"
    /\ IF max_workers <= 0
       THEN /\ opc' = "export"
            /\ orch' = [orch EXCEPT !.phase3_ended = TRUE]
       ELSE /\ opc' = "routes"
            /\ orch' = [orch EXCEPT !.route = 1]
    /\ UNCHANGED <<max_workers, timeout, elapsed, nonPhaseVars>>

\* one turn of the loop over config.routes: build_pipeline.run raises
\* (the route is added to failed_routes), returns nothing, or returns a
\* result for which a publish task is submitted to the executor
BuildRoute(outcome) ==
    /\ opc = "routes"
    /\ orch.route <= MaxPhaseRoutes
    /\ orch' = [orch EXCEPT !.route = @ + 1,
                            !.failed_routes = IF outcome = "raises"
                                              THEN @ \cup {orch.route} ELSE @,
                            !.tasks[orch.route] = IF outcome = "built" THEN "queued" ELSE @]
    /\ UNCHANGED <<max_workers, timeout, elapsed, opc, nonPhaseVars>>

\* after the loop: publish_wait_timeout = max(0.0, timeout - elapsed), kept
\* as the time at which as_completed gives up
StartWait ==
    /\ opc = "routes"
    /\ orch.route > MaxPhaseRoutes
    /\ orch' = [orch EXCEPT !.wait_until =
                   IF timeout = NoTimeout THEN 0
                   ELSE IF timeout > elapsed THEN timeout ELSE elapsed]
    /\ opc' = "wait"
    /\ UNCHANGED <<max_workers, timeout, elapsed, nonPhaseVars>>

\* a thread of the executor starts a submitted task
TaskStart(i) ==
    /\ orch.tasks[i] = "queued"
    /\ Cardinality(Running) < max_workers
    /\ orch' = [orch EXCEPT !.tasks[i] = "running"]
    /\ UNCHANGED <<max_workers, timeout, elapsed, opc, nonPhaseVars>>

\* publish_pipeline.run returns or raises
TaskEnd(i, ok) ==
    /\ orch.tasks[i] = "running"
    /\ orch' = [orch EXCEPT !.tasks[i] = IF ok THEN "done" ELSE "failed"]
    /\ UNCHANGED <<max_workers, timeout, elapsed, opc, nonPhaseVars>>

\* as_completed has yielded every future: a task that raised adds its
\* route to failed_routes
WaitDone ==
    /\ opc = "wait"
    /\ Unfinished = {}
    /\ orch' = [orch EXCEPT !.failed_routes =
                   @ \cup {i \in 1..MaxPhaseRoutes : orch.tasks[i] = "failed"}]
    /\ opc' = "shutdown"
    /\ UNCHANGED <<max_workers, timeout, elapsed, nonPhaseVars>>

\* as_completed raises TimeoutError when publish_wait_timeout is over and
\* futures are left; the except clause logs "Publishing timed out"
WaitTimeout ==
    /\ opc = "wait"
    /\ timeout # NoTimeout
    /\ elapsed >= orch.wait_until
    /\ Unfinished # {}
    /\ orch' = [orch EXCEPT !.failed_routes =
                   @ \cup {i \in 1..MaxPhaseRoutes : orch.tasks[i] = "failed"},
                            !.interrupted = @ \cup {"publish"}]
    /\ opc' = "shutdown"
    /\ UNCHANGED <<max_workers, timeout, elapsed, nonPhaseVars>>

\* the end of "with ThreadPoolExecutor(...) as pub_executor": __exit__
\* calls shutdown(wait=True), which returns when every submitted task
\* has ended
ExecutorExit ==
    /\ opc = "shutdown"
    /\ Unfinished = {}
    /\ orch' = [orch EXCEPT !.phase3_ended = TRUE]
    /\ opc' = "export"
    /\ UNCHANGED <<max_workers, timeout, elapsed, nonPhaseVars>>

\* phase 3b: _export_outputs and _export_dev_outputs, each in its own
\* try; an exception is logged
PhaseExport(fails) ==
    /\ opc = "export"
    /\ orch' = [orch EXCEPT !.exports = @ + 1]
    /\ opc' = "cleanup"
    /\ UNCHANGED <<max_workers, timeout, elapsed, nonPhaseVars>>

\* phase 4: prune_processed and prune_archive in one try; an exception is
\* logged
PhaseCleanup(fails) ==
    /\ opc = "cleanup"
    /\ orch' = [orch EXCEPT !.cleanups = @ + 1]
    /\ opc' = "complete"
    /\ UNCHANGED <<max_workers, timeout, elapsed, nonPhaseVars>>

\* the steps of the thread that runs Orchestrator.run
OrchestratorStep ==
    \/ \E interrupted \in BOOLEAN : Phase1(interrupted)
    \/ \E fails \in BOOLEAN : Phase2(fails)
    \/ OpenExecutor
    \/ \E outcome \in {"raises", "empty", "built"} : BuildRoute(outcome)
    \/ StartWait
    \/ WaitDone
    \/ WaitTimeout
    \/ ExecutorExit
    \/ \E fails \in BOOLEAN : PhaseExport(fails)
    \/ \E fails \in BOOLEAN : PhaseCleanup(fails)

PhaseNext ==
    \/ PhaseTick
    \/ OrchestratorStep
    \/ \E i \in 1..MaxPhaseRoutes : TaskStart(i)
    \/ \E i \in 1..MaxPhaseRoutes, ok \in BOOLEAN : TaskEnd(i, ok)

SpecPhases == PhaseInit /\ [][PhaseNext]_vars

\* C26: in a run with a timeout, once the deadline has passed the
\* orchestrator is not held in phase 3 by publish tasks that have not
\* ended: it can go on towards the export while they are left running.
C26_PublishWaitBounded ==
    (TimedOut /\ opc \in {"wait", "shutdown"} /\ Unfinished # {}) =>
        ENABLED OrchestratorStep

\* C27: in every run, whatever fails and whether or not the timeout
\* expires, export and cleanup are each executed at most once and, when
\* the run is complete, exactly once; cleanup comes after the export and
\* the export after the end of phase 3.
C27_ExportAndCleanupAlwaysRun ==
    /\ orch.exports <= 1 /\ orch.cleanups <= 1
    /\ orch.cleanups >= 1 => orch.exports >= 1
    /\ orch.exports >= 1 => orch.phase3_ended
    /\ opc \in {"cleanup", "complete"} => orch.exports = 1
    /\ opc = "complete" => orch.cleanups = 1

\* C27 witness: a run is complete after phase 1 was interrupted by the
\* timeout, a route failed in build and a publish task raised
C27_Witness_CompleteAfterFailures ==
    /\ opc = "complete"
    /\ "phase1" \in orch.interrupted
    /\ orch.failed_routes = 1..MaxPhaseRoutes
    /\ \E i \in 1..MaxPhaseRoutes : orch.tasks[i] = "failed"
    /\ orch.exports = 1 /\ orch.cleanups = 1

\* C27 witness: a run whose phase 3 ended with the fatal error is complete
C27_Witness_CompleteAfterFatal ==
    /\ opc = "complete" /\ max_workers = 0
    /\ orch.exports = 1 /\ orch.cleanups = 1

\* ==================================================================
\* SpecExport: Orchestrator._export_outputs over a directory outputs/
\* that holds files of earlier runs and files of other origin
\* ==================================================================
MaxExports == 2     \* exports in one behaviour

\* config.routes: the names of the routes
ExportRouteSets == {{"r1"}, {"r1", "r2"}}

\* what outputs/ may hold before the first export: files of earlier runs
\* of the routes, a file of a route that is no longer configured, and
\* files that no run wrote
ExportFiles ==
    {[name |-> n, data |-> "old"] :
        n \in {"README.md", "r1.npvt", "r1_npvt_decoded.json", "r10.npvt", "r2.npvt",
               "verify_output.py"}}

\* all_build_results of a run: the results of BuildPipeline.run for the
\* routes, in the order the code appends them; the decoded JSON of an
\* npvt artifact is a result only when a link could be decoded
ExportResults(rts) ==
    LET npvt(rt, d) == <<BuildResult(rt, "npvt.decoded.json", sha256(d) \o "_dec", "json " \o d),
                         BuildResult(rt, "npvt", sha256(d), d)>>
        ovpn(rt, d) == <<BuildResult(rt, "ovpn", sha256(d), d)>>
        plain(rt, d) == <<BuildResult(rt, "npvt", sha256(d), d)>>
        of(rt) == {<<>>} \cup {npvt(rt, d) : d \in {"A", "B"}} \cup {ovpn(rt, "A")}
                  \cup {npvt(rt, "A") \o ovpn(rt, "A")} \cup {plain(rt, "B")}
    IN IF "r2" \in rts THEN {a \o b : a \in of("r1"), b \in {<<>>, npvt("r2", "A")}}
       ELSE of("r1")

ExportInit ==
    /\ DbEmpty /\ StoreIdle /\ UriIdle /\ IngestIdle /\ PublishIdle
    /\ AtomIdle /\ TransIdle /\ FaultIdle /\ RouteIdle /\ CliIdle
    /\ CutIdle /\ RepoIdle /\ PoolIdle /\ PhaseIdle /\ DevIdle /\ TextIdle /\ RaiseIdle
    /\ OffsetIdle
    /\ rpc = "idle"
    /\ runNo = 0
    /\ feeds = [s \in Sources |-> <<>>]
    /\ source_queue = {}
    /\ all_build_results = <<>>
    /\ toPublish = {}
    /\ artifact_files = {}
    /\ output_files = {}
    /\ archive = {}
    /\ outputs \in SUBSET ExportFiles
    /\ outputs_dev = NoDevOutputs
    /\ afterRun1 = NoSnapshot
    /\ lastBuild = NoBuild
    /\ \E rts \in ExportRouteSets : xp = [routes |-> rts, exports |-> 0, before |-> {}]

\* phase 3b of a run whose phase 3 left build_results
ExportOutputs(build_results) ==
    /\ xp.exports < MaxExports
    /\ build_results \in ExportResults(xp.routes)
    /\ all_build_results' = build_results
    /\ outputs' = _export_outputs(outputs, build_results, xp.routes)
    /\ xp' = [xp EXCEPT !.exports = @ + 1, !.before = outputs]
    /\ UNCHANGED <<rpc, runNo, feeds, source_queue, toPublish, artifact_files, output_files,
                   archive, outputs_dev, afterRun1, lastBuild,
                   uriVars, dbVars, ingestVars, pubVars, storeVars,
                   atomVars, transVars, faultVars, routeVars, cliVars,
                   cutVars, repoVars, poolVars, phaseVars, dv, bt, ended, cx>>

ExportNext == \E build_results \in ExportResults(xp.routes) : ExportOutputs(build_results)

SpecExport == ExportInit /\ [][ExportNext]_vars

\* the names of the files of a directory
Names(dir) == {f.name : f \in dir}

\* the name starts with the name of a configured route
RouteOwned(n) == \E rt \in xp.routes : startswith(n, rt)

\* the names of the files the last export wrote
Written == {_output_filename(all_build_results[i].route_name, all_build_results[i].format) :
               i \in 1..Len(all_build_results)}

\* C31: an export removes exactly the files of outputs/ whose name begins
\* with the name of a configured route and that it does not write; a file
\* whose name begins with no configured route name is there after the
\* export with the bytes it had.
C31_ExportRemovesStaleRouteFiles ==
    xp.exports >= 1 =>
        /\ Names(xp.before) \ Names(outputs)
             = {n \in Names(xp.before) : RouteOwned(n) /\ n \notin Written}
        /\ \A f \in xp.before : ~RouteOwned(f.name) => f \in outputs

\* C31 witness: one export removed a stale file of a route (also one whose
\* name only starts like the route), overwrote another and kept a file
\* that belongs to no route
C31_Witness_StaleRemovedOthersKept ==
    /\ xp.exports >= 1
    /\ {"r1_npvt_decoded.json", "r10.npvt"} \subseteq Names(xp.before) \ Names(outputs)
    /\ [name |-> "r1.npvt", data |-> "old"] \in xp.before
    /\ [name |-> "r1.npvt", data |-> "old"] \notin outputs
    /\ "r1.npvt" \in Names(outputs)
    /\ [name |-> "README.md", data |-> "old"] \in xp.before \cap outputs
    /\ [name |-> "r2.npvt", data |-> "old"] \in xp.before \cap outputs

\* C40: when the run produced no build result, the export leaves outputs/
\* as it was: no file of an earlier run is removed or modified.
C40_EmptyRunLeavesOutputs ==
    (xp.exports >= 1 /\ all_build_results = <<>>) => outputs = xp.before

\* ==================================================================
\* SpecDev: Orchestrator._export_dev_outputs over the runs of one
\* installation; the records of a run are the ones NpvtHandler.parse
\* makes of the text the run ingests
\* ==================================================================
MaxDevRuns == 2     \* runs in one behaviour
MaxDevStep == 2     \* seconds between two runs, at most

\* the URIs a run may ingest: vless URIs with up to three fragments and
\* one vmess URI with a JSON payload that carries a remark
DevRaws ==
    {Uri("vless", NoBlob, r) :
        r \in {<<"a">>, <<"b">>, <<"a", "#", "b">>, <<"a", "#", "b", "#", "b", "#", "b">>}}
    \cup {Uri("vmess", b, <<>>) :
            b \in {x \in Blobs : WellFormedBlob(x) /\ x.ps = "x" /\ ~x.spaced /\ x.pad}}

\* the code point of a character of a URI
CodePoint(c) == CASE c = "#" -> 35 [] c = "a" -> 97 [] c = "b" -> 98 [] OTHER -> 0

\* Python's str comparison on the characters after the scheme
RECURSIVE StrLess(_, _)
StrLess(x, y) ==
    IF y = <<>> THEN FALSE
    ELSE IF x = <<>> THEN TRUE
    ELSE IF Head(x) # Head(y) THEN CodePoint(Head(x)) < CodePoint(Head(y))
    ELSE StrLess(Tail(x), Tail(y))

\* u < v for two URIs as strings: "vless://..." sorts before "vmess://...",
\* and the keys of one scheme differ after the payload only
UriLess(u, v) ==
    IF u.scheme # v.scheme THEN u.scheme = "vless" ELSE StrLess(u.rest, v.rest)

\* sorted(manifest.keys(), key=lambda u: (-manifest[u], u))
RECURSIVE sorted_uris(_)
sorted_uris(manifest) ==
    IF manifest = {} THEN <<>>
    ELSE LET first == CHOOSE m \in manifest : \A o \in manifest \ {m} :
                          \/ m.first_seen > o.first_seen
                          \/ m.first_seen = o.first_seen /\ UriLess(m.key, o.key)
         IN <<first.key>> \o sorted_uris(manifest \ {first})

\* [add_clean_remark(u, remark_counter) for u in sorted_uris]
RECURSIVE remarked_uris(_, _)
remarked_uris(uris, counter) ==
    IF uris = <<>> THEN <<>>
    ELSE LET sch == SchemeOf(Head(uris))
             n == (IF sch \in DOMAIN counter THEN counter[sch] ELSE 0) + 1
         IN <<add_clean_remark(Head(uris), n)>>
            \o remarked_uris(Tail(uris),
                             [s \in DOMAIN counter \cup {sch} |->
                                 IF s = sch THEN n ELSE counter[s]])

\* manifest[key] = now for the keys of history_records that are not in it
dev_manifest(manifest, lines, now) ==
    LET keys == {strip_proxy_remark(l) : l \in lines}
        known == {m.key : m \in manifest}
    IN manifest \cup {[key |-> k, first_seen |-> now] : k \in keys \ known}

DevInit ==
    /\ DbEmpty /\ StoreIdle /\ UriIdle /\ IngestIdle /\ PublishIdle /\ RunIdle
    /\ AtomIdle /\ TransIdle /\ FaultIdle /\ RouteIdle /\ CliIdle
    /\ CutIdle /\ RepoIdle /\ PoolIdle /\ PhaseIdle /\ ExportIdle /\ TextIdle /\ RaiseIdle
    /\ OffsetIdle
    /\ dv = NoDev

\* one run: the text raws is ingested and parsed into records at time now,
\* then the run exports outputs_dev/
DevRun(raws, now) ==
    /\ dv.runs < MaxDevRuns
    /\ LET parsed == parse(AsText(SeqOfSet(raws)))
           lines == dv.lines \cup {parsed[i].line : i \in 1..Len(parsed)}
           manifest == dev_manifest(dv.manifest, lines, now)
       IN dv' = [lines |-> lines,
                 manifest |-> manifest,
                 before |-> dv.manifest,
                 proxies |-> IF manifest = {} THEN dv.proxies
                             ELSE remarked_uris(sorted_uris(manifest), <<>>),
                 now |-> now,
                 runs |-> dv.runs + 1]
    /\ UNCHANGED <<uriVars, dbVars, ingestVars, pubVars, storeVars, runVars,
                   atomVars, transVars, faultVars, routeVars, cliVars,
                   cutVars, repoVars, poolVars, phaseVars, xp, bt, ended, cx>>

DevNext ==
    \E raws \in {S \in SUBSET DevRaws : Cardinality(S) <= 2},
       now \in (dv.now + 1)..(dv.now + MaxDevStep) : DevRun(raws, now)

SpecDev == DevInit /\ [][DevNext]_vars

\* the manifest of the last run holds what it held before, with the same
\* timestamps, one timestamp per URI, and what the run added has its time
ManifestGrows ==
    /\ dv.before \subseteq dv.manifest
    /\ \A m \in dv.manifest \ dv.before : m.first_seen = dv.now
    /\ \A m, o \in dv.manifest : m.key = o.key => m = o

\* the URIs proxies.txt lists, without the tag add_clean_remark gave them
Listed == [i \in 1..Len(dv.proxies) |-> strip_proxy_remark(dv.proxies[i])]

\* C32: across the runs the manifest only grows, a URI keeps the first-seen
\* time of the run that added it, and proxies.txt lists every URI of the
\* manifest exactly once, newest first and in lexicographic order among
\* the URIs of one time.
C32_ManifestGrowsAndIsListed ==
    dv.runs >= 1 =>
        /\ ManifestGrows
        /\ Listed = sorted_uris(dv.manifest)

\* ==================================================================
\* SpecText: BuildPipeline.run for the route, over the records the query
\* returns and the raw store it finds
\* ==================================================================
MaxTextRows == 3    \* records of the route

\* the records of the route: a proxy URI of ordinary length, the URI
\* "dns://8.8.8.8", and a bundle
TextRows ==
    {[source_file_hash |-> sha256("d1"), record_type |-> "npvt", unique_hash |-> "uri1"],
     [source_file_hash |-> sha256("d3"), record_type |-> "npvt", unique_hash |-> "dns1"],
     [source_file_hash |-> sha256("d2"), record_type |-> "ovpn", unique_hash |-> sha256("d2")]}

TextInit ==
    /\ DbEmpty /\ StoreIdle /\ UriIdle /\ IngestIdle /\ PublishIdle /\ RunIdle
    /\ AtomIdle /\ TransIdle /\ FaultIdle /\ RouteIdle /\ CliIdle
    /\ CutIdle /\ RepoIdle /\ PoolIdle /\ PhaseIdle /\ ExportIdle /\ DevIdle /\ RaiseIdle
    /\ OffsetIdle
    /\ \E rows \in SeqsUpTo(TextRows, MaxTextRows), bl \in SUBSET {sha256("d2")} :
          bt = [rows |-> rows, blobs |-> bl, results |-> <<>>, ran |-> FALSE]

\* BuildPipeline.run once the records are fetched
TextBuild ==
    /\ ~bt.ran
    /\ bt.rows # <<>>
    /\ LET st == build_formats([artifact_files |-> {}, output_files |-> {},
                                archive |-> {}, results |-> <<>>],
                               RouteName, RouteFormats, bt.rows, bt.blobs, 0)
       IN bt' = [bt EXCEPT !.results = st.results, !.ran = TRUE]
    /\ UNCHANGED <<uriVars, dbVars, ingestVars, pubVars, storeVars, runVars,
                   atomVars, transVars, faultVars, routeVars, cliVars,
                   cutVars, repoVars, poolVars, phaseVars, xp, dv, ended, cx>>

TextNext == TextBuild

SpecText == TextInit /\ [][TextNext]_vars

TextFormats == {"npvt", "npvtsub", "conf_lines"}

\* C39: a text format of which the route has at least one record gets a
\* build result, whatever the size of the artifact.
C39_TextArtifactNeverDropped ==
    bt.ran =>
        \A i \in 1..Len(RouteFormats) :
            (/\ RouteFormats[i] \in TextFormats
             /\ \E k \in 1..Len(bt.rows) : bt.rows[k].record_type = RouteFormats[i])
            => \E k \in 1..Len(bt.results) : bt.results[k].format = RouteFormats[i]

\* ==================================================================
\* SpecRaise: ingestion runs of the worker pool that end by returning or
\* by an exception of the connector, of RawStore.save or of
\* update_source_state
\* ==================================================================
\* what SpecRaise leaves alone besides the database and the workers
nonRaiseVars == <<uriVars, pubVars, storeVars, runVars, atomVars, transVars, faultVars,
                  routeVars, cliVars, cutVars, repoVars, poolVars, phaseVars, xp, dv, bt, cx>>

\* the except clause of DBConnection.connect that commits what the
\* connection wrote
rollback_commits(sf, w) == CommitRows(sf, w)

\* conn.rollback() in the except clause of DBConnection.connect: the rows
\* the connection wrote are gone
rollback(sf, w) == SelectSeq(sf, LAMBDA row : row.tx # w)

RaiseInit == IngestInit

\* the connector is drained and the run returns (FinishIngest)
RunReturns(w) ==
    /\ wk[w].pc = "run"
    /\ dbWriter \in {NoWorker, w}
    /\ LET src == wk[w].source_id
           r == _process_batch(seen_files, blobs, w, src, wk[w].buffer)
       IN /\ seen_files' = CommitRows(r.seen_files, w)
          /\ blobs' = r.blobs
          /\ source_state' = WithStats(source_state, src, wk[w].count + r.new_items_count,
                                       wk[w].skipped_count + r.skipped_count)
    /\ dbWriter' = NoWorker
    /\ wk' = [wk EXCEPT ![w] = IdleWorker]
    /\ ended' = "returned"
    /\ UNCHANGED <<ingestRuns, nonRaiseVars>>

\* connector.list_new raises: the except clause of run logs and re-raises,
\* the exception leaves the with-block of the connection
ConnectorRaises(w) ==
    /\ wk[w].pc = "run"
    /\ seen_files' = rollback(seen_files, w)
    /\ dbWriter' = IF dbWriter = w THEN NoWorker ELSE dbWriter
    /\ wk' = [wk EXCEPT ![w] = IdleWorker]
    /\ ended' = "connector error"
    /\ UNCHANGED <<source_state, blobs, ingestRuns, nonRaiseVars>>

\* RawStore.save raises for item k of the last buffer: the blobs of the
\* items before it are written, record_files_batch is not reached
SaveRaises(w, k) ==
    /\ wk[w].pc = "run"
    /\ k \in 1..Len(wk[w].buffer)
    /\ LET src == wk[w].source_id
           earlier == SubSeq(wk[w].buffer, 1, k - 1)
           r == _process_batch(seen_files, blobs, w, src, earlier)
           seen_ids == get_seen_files_batch(seen_files, w, src, {wk[w].buffer[k].external_id})
       IN /\ seen_ids = {}
          /\ blobs' = r.blobs
          /\ seen_files' = rollback(seen_files, w)
    /\ dbWriter' = IF dbWriter = w THEN NoWorker ELSE dbWriter
    /\ wk' = [wk EXCEPT ![w] = IdleWorker]
    /\ ended' = "blob write error"
    /\ UNCHANGED <<source_state, ingestRuns, nonRaiseVars>>

\* the last buffer is flushed and update_source_state (or get_state)
\* raises: the except clause logs and re-raises
StateUpdateRaises(w) ==
    /\ wk[w].pc = "run"
    /\ LET r == _process_batch(seen_files, blobs, w, wk[w].source_id, wk[w].buffer)
       IN /\ (r.wrote => dbWriter \in {NoWorker, w})
          /\ blobs' = r.blobs
          /\ seen_files' = rollback(r.seen_files, w)
    /\ dbWriter' = IF dbWriter = w THEN NoWorker ELSE dbWriter
    /\ wk' = [wk EXCEPT ![w] = IdleWorker]
    /\ ended' = "state update error"
    /\ UNCHANGED <<source_state, ingestRuns, nonRaiseVars>>

\* one turn of the loop of run; the connector yields up to one full batch
RaiseYield(w, item) ==
    /\ wk[w].yielded < BATCH_SIZE
    /\ Yield(w, item)

RaiseNext ==
    \/ \E w \in Workers, src \in Sources : StartIngest(w, src)
    \/ \E w \in Workers, item \in Items : RaiseYield(w, item)
    \/ \E w \in Workers : RunReturns(w)
    \/ \E w \in Workers : ConnectorRaises(w)
    \/ \E w \in Workers, k \in 1..BATCH_SIZE : SaveRaises(w, k)
    \/ \E w \in Workers : StateUpdateRaises(w)

SpecRaise == RaiseInit /\ [][RaiseNext]_vars

Raised(e) == e \in {"connector error", "blob write error", "state update error"}

CommittedRows(sf) == SelectSeq(sf, LAMBDA row : row.tx = Committed)

\* C36: a run of IngestionPipeline.run that raises (connector error, blob
\* write error, failure of the state update) commits nothing for its
\* source: the committed seen_files rows are the ones there were, no row of
\* the run remains, and source_state is unchanged.
C36_RaisedRunCommitsNothing ==
    [][\A w \in Workers :
          (wk[w].pc = "run" /\ wk'[w].pc = "idle" /\ Raised(ended')) =>
            /\ CommittedRows(seen_files') = CommittedRows(seen_files)
            /\ \A i \in 1..Len(seen_files') : seen_files'[i].tx # w
            /\ source_state' = source_state]_vars

\* C36 witness: a run flushed a batch, saved its blobs and then raised in
\* the state update; the database holds nothing of the source
C36_Witness_RaisedAfterFlush ==
    /\ ended = "state update error"
    /\ \A w \in Workers : wk[w].pc = "idle"
    /\ blobs # {}
    /\ seen_files = <<>>
    /\ \A s \in Sources : source_state[s] = NoState

\* ==================================================================
\* SpecOffset: IngestionPipeline.run over TelegramUserConnector.list_new
\* for one channel, run after run; the generator scans the channel in two
\* passes and the loop of run takes what it yields
\* ==================================================================
MaxMsgs == 3            \* messages of the channel, with the ids 1..MaxMsgs
MaxOffsetRuns == 2      \* runs in one behaviour
_TEXT_BATCH_SIZE == 2   \* text items the first pass collects before it yields

\* a message is a text or a document, younger than the cutoffs
MsgKinds == {"text", "doc"}

\* SourceItem.external_id: str(msg.id), with "_media" for a document
ItemOf(n, kind) == [id |-> n, media |-> (kind = "doc")]

Max(a, b) == IF a >= b THEN a ELSE b

OffsetInit ==
    /\ DbEmpty /\ StoreIdle /\ UriIdle /\ IngestIdle /\ PublishIdle /\ RunIdle
    /\ AtomIdle /\ TransIdle /\ FaultIdle /\ RouteIdle /\ CliIdle
    /\ CutIdle /\ RepoIdle /\ PoolIdle /\ PhaseIdle
    /\ ExportIdle /\ DevIdle /\ TextIdle /\ RaiseIdle
    /\ \E kinds \in [1..MaxMsgs -> MsgKinds], deadline \in BOOLEAN :
          cx = [NoScan EXCEPT !.kinds = kinds, !.deadline = deadline]

nonOffsetVars == <<uriVars, dbVars, ingestVars, pubVars, storeVars, runVars,
                   atomVars, transVars, faultVars, routeVars, cliVars,
                   cutVars, repoVars, poolVars, phaseVars, xp, dv, bt, ended>>

\* run reads the stored state and list_new starts from its offset
OffsetStart ==
    /\ cx.pc = "idle"
    /\ cx.runs < MaxOffsetRuns
    /\ cx' = [cx EXCEPT !.pc = "run", !.runs = @ + 1, !.pass = 1,
                        !.last_id = cx.persisted, !.offset = cx.persisted,
                        !.next = cx.persisted + 1,
                        !.batch = <<>>, !.out = <<>>, !.buffer = <<>>, !.how = "none"]
    /\ UNCHANGED nonOffsetVars

\* _fetch_text_pass takes the next message of iter_messages(min_id=last_id):
\* the offset moves to its id, a text goes to the batch, and a full batch
\* is yielded
ScanText ==
    /\ cx.pc = "run" /\ cx.pass = 1 /\ cx.out = <<>>
    /\ cx.next <= MaxMsgs
    /\ LET n == cx.next
           batch == IF cx.kinds[n] = "text" THEN Append(cx.batch, ItemOf(n, "text"))
                    ELSE cx.batch
           full == Len(batch) >= _TEXT_BATCH_SIZE
       IN cx' = [cx EXCEPT !.offset = Max(cx.offset, n), !.next = n + 1,
                           !.batch = IF full THEN <<>> ELSE batch,
                           !.out = IF full THEN batch ELSE <<>>]
    /\ UNCHANGED nonOffsetVars

\* the first pass is over: the rest of the batch is yielded and the second
\* pass starts from last_id again
EndTextPass ==
    /\ cx.pc = "run" /\ cx.pass = 1 /\ cx.out = <<>>
    /\ cx.next > MaxMsgs
    /\ cx' = [cx EXCEPT !.out = cx.batch, !.batch = <<>>, !.pass = 2,
                        !.next = cx.last_id + 1]
    /\ UNCHANGED nonOffsetVars

\* _fetch_document_pass takes the next message: the offset moves to its
\* id, and a document is downloaded and yielded
ScanDoc ==
    /\ cx.pc = "run" /\ cx.pass = 2 /\ cx.out = <<>>
    /\ cx.next <= MaxMsgs
    /\ LET n == cx.next
       IN cx' = [cx EXCEPT !.offset = Max(cx.offset, n), !.next = n + 1,
                           !.out = IF cx.kinds[n] = "doc" THEN <<ItemOf(n, "doc")>>
                                   ELSE <<>>]
    /\ UNCHANGED nonOffsetVars

\* _process_batch: the items of the buffer get their seen_files rows
Flushed(rows, buffer) == rows \cup Range(buffer)

\* the loop of run takes the item the generator yields, the deadline not
\* being exceeded, and flushes a full buffer
TakeItem ==
    /\ cx.pc = "run" /\ cx.out # <<>>
    /\ LET buffer == Append(cx.buffer, Head(cx.out))
           full == Len(buffer) >= BATCH_SIZE
       IN cx' = [cx EXCEPT !.out = Tail(cx.out),
                           !.buffer = IF full THEN <<>> ELSE buffer,
                           !.rows = IF full THEN Flushed(cx.rows, buffer) ELSE cx.rows]
    /\ UNCHANGED nonOffsetVars

\* the end of run: the buffer is flushed and connector.get_state(), the
\* offset of the connector, is stored with the statistics
EndOfRun(how) ==
    [cx EXCEPT !.pc = "idle", !.how = how, !.out = <<>>, !.batch = <<>>, !.buffer = <<>>,
               !.rows = Flushed(cx.rows, cx.buffer),
               !.persisted = cx.offset]

\* the loop takes an item after the deadline: it leaves the loop without
\* the item, and the run ends as usual
DeadlineBreak ==
    /\ cx.pc = "run" /\ cx.out # <<>>
    /\ cx.deadline
    /\ cx' = EndOfRun("deadline")
    /\ UNCHANGED nonOffsetVars

\* the generator is exhausted
RunEndsNormally ==
    /\ cx.pc = "run" /\ cx.pass = 2 /\ cx.out = <<>>
    /\ cx.next > MaxMsgs
    /\ cx' = EndOfRun("normal")
    /\ UNCHANGED nonOffsetVars

OffsetNext ==
    \/ OffsetStart
    \/ ScanText
    \/ EndTextPass
    \/ ScanDoc
    \/ TakeItem
    \/ DeadlineBreak
    \/ RunEndsNormally

SpecOffset == OffsetInit /\ [][OffsetNext]_vars

\* C37: after a run that ended normally or by its deadline, every message
\* of the channel with an id at or below the stored offset has its
\* seen_files row.
C37_NothingSkippedBelowOffset ==
    (cx.pc = "idle" /\ cx.runs >= 1) =>
        \A n \in 1..MaxMsgs :
            n <= cx.persisted => ItemOf(n, cx.kinds[n]) \in cx.rows

\* the records handler.parse makes of the file of a seen_files row
RecordsOfFile(row) == ParsedRecords(row.raw_hash, decide_format(RawGet(row.raw_hash)))

\* C34: a seen-file has status processed only if every record parsed from
\* it is in records, also after a transform run whose batch insert of
\* records failed.
C34_ProcessedOnlyWithRecords ==
    \A k \in 1..Len(seen_files) :
        seen_files[k].status = "processed" =>
            \A i \in 1..Len(RecordsOfFile(seen_files[k])) :
                \E j \in 1..Len(records) :
                    /\ records[j].source_file_hash = seen_files[k].raw_hash
                    /\ records[j].record_type = RecordsOfFile(seen_files[k])[i].record_type
                    /\ records[j].unique_hash = RecordsOfFile(seen_files[k])[i].unique_hash

\* C35: once a seen-file has status processed, nothing that is ingested or
\* transformed later changes its status or its error_msg.
C35_ProcessedIsFinal ==
    [][\A i \in 1..Len(seen_files) :
          seen_files[i].status = "processed" =>
            /\ i <= Len(seen_files')
            /\ seen_files'[i].status = "processed"
            /\ seen_files'[i].error_msg = seen_files[i].error_msg]_vars

\* the selector of the source admits the format
Admits(src, fmt) == fmt \in include_formats(src) \/ "all" \in include_formats(src)

\* C38: every record the build query returns was parsed from a file of one
\* of the allowed sources whose selector admits the format of the record,
\* also when a file with the same bytes was seen by several sources.
C38_BuildOnlyFromAdmittedFiles ==
    lastQuery.ran =>
        \A i \in 1..Len(lastQuery.rows) :
            \E k \in 1..Len(seen_files) :
                /\ seen_files[k].raw_hash = lastQuery.rows[i].source_file_hash
                /\ seen_files[k].source_id \in lastQuery.allowed_source_ids
                /\ Admits(seen_files[k].source_id, lastQuery.rows[i].record_type)

====
